---- MODULE Spec2Model ----
(***************************************************************************)
(* State-machine model of the finq front end: the session-scoped upload,   *)
(* chat and slide-generation flows of the unified dashboard                *)
(* (PPTDashboard, RAGDashboard) and of the stand-alone balance-sheet-rag   *)
(* application.  Each React component's useState cells are variables, each *)
(* event handler and each promise continuation is one action.  A control   *)
(* rendered with `disabled` delivers no click, so the disabled expression  *)
(* is part of the guard of the action its handler models.  The backend is  *)
(* an external collaborator: its answers are chosen nondeterministically.  *)
(***************************************************************************)
EXTENDS Integers, Sequences, FiniteSets, TLC

VARIABLES
    \* ---- PPTDashboard (src/unnamed/part_002:133-139)
    sessionId, slides, generating, metadata, error, recommendations,
    \* ---- PPTFileUpload (src/app/frontend/src/components/ppt/SlidePreview.jsx:269-272)
    balanceSheet, companyProfile, uploading, uploadError,
    \* ---- ConfigurationPanel (SlidePreview.jsx:427-437); selOrigin is a history
    \*      variable: the session whose recommendations were last copied into
    \*      selectedSlides (NoSession while the selection stems from the default)
    selectedSlides, selOrigin, template, theme,
    \* ---- SlidePreview (src/app/frontend/src/components/ppt/SlidePreview.jsx:5)
    currentSlideIndex,
    \* ---- RAGDashboard (src/app/frontend/src/components/rag/RAGDashboard.jsx:9-12)
    \*      shares sessionId and error; balance-sheet-rag's App shares
    \*      sessionId, uploadStatus and isProcessing
    uploadStatus,
    \* ---- RAGFileUpload (rag/FileUpload.jsx:5-10) shares balanceSheet and
    \*      companyProfile; hideTimer: the pending setTimeout(setIsProcessing(false))
    isProcessing, processingStatus, processingComplete, hideTimer,
    \*      stageTimers: the pending setTimeout(setProcessingStatus(...)) calls,
    \*      one tuple of labels still to come per handleUpload call
    stageTimers,
    \* ---- balance-sheet-rag FileUpload (balance-sheet-rag/.../FileUpload.jsx:6)
    selectedFile,
    \* ---- ChatInterface (src/unnamed/part_004:43-51); chatInst numbers the
    \*      mounted instance (React drops a state update of an unmounted one)
    messages, isLoading, chatInst,
    \* ---- the text of the last window.alert
    alertText,
    \* ---- Dashboard (src/unnamed/part_003:17): the view whose component is on
    \*      screen
    activeView,
    \* ---- requests in flight, per endpoint, in the order they were issued, and
    \*      the backend's next fresh session id
    uploadReqs, recReqs, genReqs, chatReqs, nextSid, stats,
    \* ---- download requests in flight (the session id each carries), and a
    \*      history variable: the sessions a generate request has succeeded for
    downloadReqs, generated

dashVars == <<sessionId, slides, generating, metadata, error, recommendations>>
formVars == <<balanceSheet, companyProfile, uploading, uploadError>>
\* the state of the components below the session view of the presentation flow
panelVars == <<selectedSlides, selOrigin, template, theme, currentSlideIndex>>
artifactVars == <<downloadReqs, generated>>
pptVars == <<dashVars, formVars, panelVars>>
netVars == <<uploadReqs, recReqs, genReqs>>
ragFormVars == <<isProcessing, processingStatus, processingComplete, hideTimer, stageTimers>>
chatVars == <<messages, isLoading, chatInst, chatReqs>>
\* the variables the presentation flow never touches
notPPT == <<uploadStatus, ragFormVars, selectedFile, chatVars, alertText, activeView>>
\* the variables the chat flows never touch
pptOnly == <<slides, generating, metadata, recommendations, uploading, uploadError,
             panelVars, recReqs, genReqs, artifactVars, activeView>>
vars == <<pptVars, netVars, artifactVars, nextSid, stats, notPPT>>

(***************************************************************************)
(* Bounds of the model                                                     *)
(***************************************************************************)
\* sessions the backend may hand out in one run
MaxSessions == 2
\* requests that may be outstanding at one endpoint at the same time
MaxInFlight == 2
\* successes each of Dashboard's counters is followed for
MaxCount == 2
\* slide types a recommended list may hold
MaxLen == 3
\* chat turns a history may hold (the greeting and two exchanges)
MaxMessages == 5
\* download requests that may be outstanding at the same time
MaxDownloads == 1
\* handleUpload calls whose stage timers may be pending at the same time
MaxBatches == 1

(***************************************************************************)
(* Values                                                                  *)
(***************************************************************************)
\* JS null for a session id (session ids are 1..MaxSessions)
NoSession == 0
\* JS null / undefined for a File; a File is its name, cut at the dots
NoFile == <<>>
\* JS null / undefined / '' for a message
NoText == "null"

Files == {<<"sheet", "csv">>, <<"notes", "exe">>}

\* slide type identifiers (two of the fourteen AVAILABLE_SLIDES)
SlideTypes == {"title", "executive"}
\* initial value of selectedSlides (the head of the nine-entry list)
DefaultSlides == <<"title", "executive">>

\* two of the TEMPLATES and of the THEMES the panel offers, and the values the
\* panel starts with
Templates == {"professional", "modern"}

Themes == {"blue", "green"}

DefaultTemplate == "professional"

DefaultTheme == "blue"

NoRecommendations == [present |-> FALSE, slides |-> <<>>, sid |-> NoSession]
NoMetadata == [present |-> FALSE, slide_count |-> 0, sid |-> NoSession]

\* recommended_slides lists the backend may answer with
RecommendedLists == {<<>>, <<"executive">>, <<"executive", "title">>}

\* error texts the backend or the transport may supply (NoText: none)
ErrorTexts == {NoText, "timeout"}

\* a || b on message strings
Or(a, b) == IF a # NoText THEN a ELSE b

Includes(s, x) == \E i \in 1..Len(s) : s[i] = x

Without(s, x) ==
    LET Keep(e) == e # x
    IN  SelectSeq(s, Keep)

RemoveAt(s, i) == SubSeq(s, 1, i - 1) \o SubSeq(s, i + 1, Len(s))

CanSend(reqs) == Len(reqs) < MaxInFlight

\* Dashboard's stats as constructed; counting is a history field: the
\* onQueryComplete, onPPTGenerated and onDocumentProcessed props are optional,
\* and NoStats stands for the counters while the flow does not follow them
InitialStats ==
    [counting |-> TRUE, ragQueries |-> 0, pptsGenerated |-> 0, documentsProcessed |-> 0]

NoStats == [InitialStats EXCEPT !.counting = FALSE]

\* mutant of updateStats: the callback counts twice
updateStatsTwice(type) ==
    IF stats.counting THEN [stats EXCEPT ![type] = @ + 2] ELSE stats

\* Dashboard.updateStats(type), reached through the optional callback prop
updateStats(type) ==
    IF stats.counting THEN [stats EXCEPT ![type] = @ + 1] ELSE stats

\* the counters are followed up to MaxCount
CanCount(type) == stats.counting => stats[type] < MaxCount

(***************************************************************************)
(* PPTFileUpload: mounted while PPTDashboard has no session                *)
(***************************************************************************)
PPTFileUploadMounted == sessionId = NoSession

\* f = NoFile: the picker was cancelled and e.target.files[0] is undefined
handleBalanceSheetChange(f) ==
    /\ PPTFileUploadMounted
    /\ balanceSheet' = f
    /\ uploadError' = NoText
    /\ UNCHANGED <<dashVars, companyProfile, uploading, panelVars, netVars, nextSid, stats, artifactVars, notPPT>>

handleCompanyProfileChange(f) ==
    /\ PPTFileUploadMounted
    /\ companyProfile' = f
    /\ uploadError' = NoText
    /\ UNCHANGED <<dashVars, balanceSheet, uploading, panelVars, netVars, nextSid, stats, artifactVars, notPPT>>

\* the Upload Files button's disabled expression
PPTUploadDisabled ==
    uploading \/ balanceSheet = NoFile \/ companyProfile = NoFile

\* mutant of PPTValidate: the handler validates nothing
PPTValidateNothing(bs, cp) == NoText

\* handleUpload's validation: the message it sets, NoText when both slots are filled
PPTValidate(bs, cp) ==
    IF bs = NoFile THEN "Please select a balance sheet file"
    ELSE IF cp = NoFile THEN "Please select a company profile file"
    ELSE NoText

\* handleUpload up to its await (uploadPPTFiles appends both files to the form)
PPTHandleUploadBody ==
    IF PPTValidate(balanceSheet, companyProfile) # NoText
    THEN /\ uploadError' = PPTValidate(balanceSheet, companyProfile)
         /\ UNCHANGED <<uploading, uploadReqs>>
    ELSE /\ CanSend(uploadReqs)
         /\ uploading' = TRUE
         /\ uploadError' = NoText
         /\ uploadReqs' = Append(uploadReqs, [balance_sheet |-> balanceSheet,
                                              company_profile |-> companyProfile])

\* a click on the Upload Files button
PPTHandleUpload ==
    /\ PPTFileUploadMounted
    /\ ~PPTUploadDisabled
    /\ PPTHandleUploadBody
    /\ UNCHANGED <<dashVars, balanceSheet, companyProfile, panelVars, recReqs, genReqs,
                   nextSid, stats, artifactVars, notPPT>>

\* ConfigurationPanel's state after mounting: useState's initial value, then the
\* effect on [recommendations] run once with the value it is mounted with
MountedSelection(recs) ==
    IF recs.present /\ Len(recs.slides) > 0 THEN recs.slides ELSE DefaultSlides

MountedOrigin(recs) ==
    IF recs.present /\ Len(recs.slides) > 0 THEN recs.sid ELSE NoSession

\* handleUpload after its await, result.success true: onUploadSuccess =
\* PPTDashboard.handleUploadSuccess, which also starts fetchRecommendations.
\* PPTFileUpload unmounts (its state is dropped) and ConfigurationPanel mounts.
PPTUploadSucceeds(i) ==
    /\ nextSid <= MaxSessions
    /\ CanCount("documentsProcessed")
    /\ sessionId' = nextSid
    /\ nextSid' = nextSid + 1
    /\ stats' = updateStats("documentsProcessed")
    /\ error' = NoText
    /\ uploadReqs' = RemoveAt(uploadReqs, i)
    /\ recReqs' = Append(recReqs, nextSid)
    /\ balanceSheet' = NoFile
    /\ companyProfile' = NoFile
    /\ uploading' = FALSE
    /\ uploadError' = NoText
    /\ selectedSlides' = MountedSelection(recommendations)
    /\ selOrigin' = MountedOrigin(recommendations)
    /\ template' = DefaultTemplate
    /\ theme' = DefaultTheme
    /\ currentSlideIndex' = 0
    /\ UNCHANGED <<slides, generating, metadata, recommendations, genReqs, artifactVars, notPPT>>

\* the errors field of a failed upload answer: absent (or an empty list), or the
\* list of the validation messages of the two files
ErrorLists == {<<>>, <<"invalid balance sheet", "invalid company profile">>}

\* errors?.join(', '): undefined when the field is absent, '' for an empty list
Joined(errs) ==
    IF errs = <<>> THEN NoText
    ELSE IF Len(errs) = 1 THEN errs[1]
    ELSE "invalid balance sheet, invalid company profile"

\* mutant of UploadFailureMessage: the backend's text is dropped
GenericFailureMessage(text) == "Upload failed"

\* mutant of UploadFailureMessage: a failed upload shows nothing
NoFailureMessage(text) == NoText

\* data.error || 'Upload failed' and err.message || 'Upload failed'
UploadFailureMessage(text) == Or(text, "Upload failed")

\* handleUpload after its await, result.success falsy:
\* result.error || result.errors?.join(', ') || 'Upload failed'
PPTUploadRejected(i, text, errs) ==
    /\ uploadError' = Or(text, UploadFailureMessage(Joined(errs)))
    /\ uploading' = FALSE
    /\ uploadReqs' = RemoveAt(uploadReqs, i)
    /\ UNCHANGED <<dashVars, balanceSheet, companyProfile, panelVars, recReqs, genReqs,
                   nextSid, stats, artifactVars, notPPT>>

\* handleUpload's catch: uploadPPTFiles threw
PPTUploadFails(i, text) ==
    /\ uploadError' = UploadFailureMessage(text)
    /\ uploading' = FALSE
    /\ uploadReqs' = RemoveAt(uploadReqs, i)
    /\ UNCHANGED <<dashVars, balanceSheet, companyProfile, panelVars, recReqs, genReqs,
                   nextSid, stats, artifactVars, notPPT>>

(***************************************************************************)
(* PPTDashboard and ConfigurationPanel                                     *)
(***************************************************************************)
\* mutant of ConfigurationPanelMounted: the panel is on screen without a session
ConfigurationPanelAlwaysMounted == TRUE

\* PPTDashboard renders the panel (and with it the generate button) only in
\* the view it shows while it holds a session
ConfigurationPanelMounted == sessionId # NoSession

\* mutant of EffectOnRecommendations: the effect leaves the selection alone
EffectKeepsSelection(prev, list) == prev

\* ConfigurationPanel's effect on [recommendations]:
\* if (recommendations && recommendations.length > 0) setSelectedSlides(recommendations)
EffectOnRecommendations(prev, list) == IF Len(list) > 0 THEN list ELSE prev

\* fetchRecommendations(sid) after its awaits, data.success true:
\* setRecommendations(data.recommended_slides); the panel's effect on
\* [recommendations] then copies a non-empty list into selectedSlides
RecommendationsArrive(i, list) ==
    /\ recReqs' = RemoveAt(recReqs, i)
    /\ recommendations' = [present |-> TRUE, slides |-> list, sid |-> recReqs[i]]
    /\ IF ConfigurationPanelMounted /\ Len(list) > 0
       THEN selectedSlides' = EffectOnRecommendations(selectedSlides, list)
            /\ selOrigin' = recReqs[i]
            /\ UNCHANGED <<template, theme, currentSlideIndex>>
       ELSE UNCHANGED panelVars
    /\ UNCHANGED <<sessionId, slides, generating, metadata, error, formVars,
                   uploadReqs, genReqs, nextSid, stats, artifactVars, notPPT>>

\* mutant of ErrorAfterRecommendationsFail: the failure is shown to the user
ErrorSurfacedOnRecommendationsFail == "Failed to fetch recommendations"

\* the dashboard's error after a failed fetch: the catch only calls
\* console.error, the success-falsy branch does nothing
ErrorAfterRecommendationsFail == error

\* fetchRecommendations: data.success falsy, or fetch / json threw (console.error)
RecommendationsFail(i) ==
    /\ recReqs' = RemoveAt(recReqs, i)
    /\ error' = ErrorAfterRecommendationsFail
    /\ UNCHANGED <<sessionId, slides, generating, metadata, recommendations, formVars,
                   panelVars, uploadReqs, genReqs, nextSid, stats, artifactVars, notPPT>>

\* mutant of Toggled: a click always adds the type
ToggledAlwaysAppends(prev, slideValue) == Append(prev, slideValue)

\* the selection after a click on the checkbox of slideValue
Toggled(prev, slideValue) ==
    IF Includes(prev, slideValue)
    THEN Without(prev, slideValue)
    ELSE Append(prev, slideValue)

handleSlideToggle(slideValue) ==
    /\ ConfigurationPanelMounted
    /\ selectedSlides' = Toggled(selectedSlides, slideValue)
    /\ UNCHANGED <<dashVars, formVars, selOrigin, template, theme, currentSlideIndex,
                   netVars, nextSid, stats, artifactVars, notPPT>>

\* mutant of GenerateDisabled: the button forgets the request in flight
GenerateDisabledIgnoresBusy == Len(selectedSlides) = 0

\* mutant of GenerateDisabled: the button forgets the empty selection
GenerateDisabledIgnoresEmpty == generating

\* the Generate Presentation button's disabled expression
GenerateDisabled == generating \/ Len(selectedSlides) = 0

\* the Template Style select and the Theme Color buttons of the panel
setTemplate(value) ==
    /\ ConfigurationPanelMounted
    /\ template' = value
    /\ UNCHANGED <<dashVars, formVars, selectedSlides, selOrigin, theme, currentSlideIndex,
                   netVars, nextSid, stats, artifactVars, notPPT>>

setTheme(value) ==
    /\ ConfigurationPanelMounted
    /\ theme' = value
    /\ UNCHANGED <<dashVars, formVars, selectedSlides, selOrigin, template,
                   currentSlideIndex, netVars, nextSid, stats, artifactVars, notPPT>>

\* the argument ConfigurationPanel.handleGenerate calls onGenerate with
GenerateConfig == [template |-> template, theme |-> theme, slides |-> selectedSlides]

\* mutant of GenerateBody: the default list replaces the user's selection and
\* the default look the chosen one
GenerateBodyWithDefaults(sid, config) ==
    [session_id |-> sid, slides |-> DefaultSlides, template |-> DefaultTemplate,
     theme |-> DefaultTheme, use_agentic |-> TRUE]

\* the JSON body PPTDashboard.handleGenerate posts to /api/ppt/generate
GenerateBody(sid, config) ==
    [session_id |-> sid, slides |-> config.slides, template |-> config.template,
     theme |-> config.theme, use_agentic |-> TRUE]

\* ConfigurationPanel.handleGenerate -> PPTDashboard.handleGenerate up to its await
handleGenerate ==
    /\ ConfigurationPanelMounted
    /\ ~GenerateDisabled
    /\ CanSend(genReqs)
    /\ generating' = TRUE
    /\ error' = NoText
    /\ genReqs' = Append(genReqs, GenerateBody(sessionId, GenerateConfig))
    /\ UNCHANGED <<sessionId, slides, metadata, recommendations, formVars, panelVars,
                   uploadReqs, recReqs, nextSid, stats, artifactVars, notPPT>>

\* the decks the backend may answer a generate request with: one slide per
\* requested type, or a single title slide; a slide's content is drawn from the
\* documents of the request's session
Decks(req) ==
    { [k \in 1..Len(req.slides) |-> [type |-> req.slides[k], content |-> req.session_id]],
      <<[type |-> "title", content |-> req.session_id]>> }

\* mutant of MetadataOf: the stored metadata counts no slides
MetadataWithoutCount(req, deck) ==
    [present |-> TRUE, slide_count |-> 0, sid |-> req.session_id]

\* data.metadata; sid is a history field: the session the request was issued for
MetadataOf(req, deck) ==
    [present |-> TRUE, slide_count |-> Len(deck), sid |-> req.session_id]

\* handleGenerate after its awaits, data.success true
GenerateSucceeds(i, deck) ==
    /\ CanCount("pptsGenerated")
    /\ stats' = updateStats("pptsGenerated")
    /\ genReqs' = RemoveAt(genReqs, i)
    /\ slides' = deck
    /\ metadata' = MetadataOf(genReqs[i], deck)
    /\ generating' = FALSE
    /\ generated' = generated \cup {genReqs[i].session_id}
    /\ UNCHANGED <<sessionId, error, recommendations, formVars, panelVars,
                   uploadReqs, recReqs, nextSid, downloadReqs, notPPT>>

\* mutant of SlidesAfterFailure: the failure branch blanks the deck
SlidesBlankedOnFailure == <<>>

\* the slide list and metadata held after a generate request failed
SlidesAfterFailure == slides
MetadataAfterFailure == metadata

\* handleGenerate after its awaits: data.success falsy (setError(data.error ||
\* 'Generation failed')) or fetch / json threw (setError(err.message || ...))
GenerateFails(i, text) ==
    /\ genReqs' = RemoveAt(genReqs, i)
    /\ error' = Or(text, "Generation failed")
    /\ slides' = SlidesAfterFailure
    /\ metadata' = MetadataAfterFailure
    /\ generating' = FALSE
    /\ UNCHANGED <<sessionId, recommendations, formVars, panelVars,
                   uploadReqs, recReqs, nextSid, stats, artifactVars, notPPT>>

\* PPTDashboard.handleReset (the Upload New button of the session view);
\* ConfigurationPanel unmounts and a fresh PPTFileUpload mounts
handleReset ==
    /\ sessionId # NoSession
    /\ sessionId' = NoSession
    /\ slides' = <<>>
    /\ metadata' = NoMetadata
    /\ error' = NoText
    /\ recommendations' = NoRecommendations
    /\ selectedSlides' = DefaultSlides
    /\ selOrigin' = NoSession
    /\ template' = DefaultTemplate
    /\ theme' = DefaultTheme
    /\ currentSlideIndex' = 0
    /\ UNCHANGED <<generating, formVars, netVars, nextSid, stats, artifactVars, notPPT>>

\* PPTDashboard renders DownloadButton, with the session id it holds, below
\* the preview of a deck while nothing is being generated
DownloadButtonMounted == sessionId # NoSession /\ ~generating /\ Len(slides) > 0

downloadFrame == <<pptVars, netVars, generated, nextSid, stats, uploadStatus, ragFormVars,
                   selectedFile, chatVars, activeView>>

\* DownloadButton.handleDownload up to its await
handleDownload ==
    /\ DownloadButtonMounted
    /\ IF sessionId = NoSession
       THEN /\ alertText' = "No presentation available to download"
            /\ UNCHANGED downloadReqs
       ELSE /\ Len(downloadReqs) < MaxDownloads
            /\ downloadReqs' = Append(downloadReqs, sessionId)
            /\ UNCHANGED alertText
    /\ UNCHANGED downloadFrame

\* handleDownload after its await: the blob is handed to the browser as
\* presentation.pptx; no component state changes
DownloadSucceeds(i) ==
    /\ downloadReqs' = RemoveAt(downloadReqs, i)
    /\ UNCHANGED <<alertText, downloadFrame>>

\* downloadPresentation threw Error(backend error || error.message ||
\* 'Download failed')
DownloadFails(i, text) ==
    /\ downloadReqs' = RemoveAt(downloadReqs, i)
    /\ alertText' = IF text = NoText
                    THEN "Failed to download presentation: Download failed"
                    ELSE "Failed to download presentation: timeout"
    /\ UNCHANGED downloadFrame

\* every component as constructed, with the given view on screen
ConstructedWith(view, counters) ==
    /\ stats = counters
    /\ activeView = view
    /\ sessionId = NoSession
    /\ slides = <<>>
    /\ generating = FALSE
    /\ metadata = NoMetadata
    /\ error = NoText
    /\ recommendations = NoRecommendations
    /\ balanceSheet = NoFile
    /\ companyProfile = NoFile
    /\ uploading = FALSE
    /\ uploadError = NoText
    /\ selectedSlides = DefaultSlides
    /\ selOrigin = NoSession
    /\ template = DefaultTemplate
    /\ theme = DefaultTheme
    /\ currentSlideIndex = 0
    /\ uploadReqs = <<>>
    /\ recReqs = <<>>
    /\ genReqs = <<>>
    /\ nextSid = 1
    /\ uploadStatus = "idle"
    /\ isProcessing = FALSE
    /\ processingStatus = NoText
    /\ processingComplete = FALSE
    /\ hideTimer = FALSE
    /\ stageTimers = <<>>
    /\ selectedFile = NoFile
    /\ messages = <<>>
    /\ isLoading = FALSE
    /\ chatInst = 0
    /\ alertText = NoText
    /\ chatReqs = <<>>
    /\ downloadReqs = <<>>
    /\ generated = {}

\* the components of a view as constructed; the counters stay out of the
\* flows that do not follow them (nothing reads them but the Overview cards)
Constructed(view) == ConstructedWith(view, NoStats)

PPTInit == Constructed("ppt")

PPTNext ==
    \/ \E f \in Files \cup {NoFile} : handleBalanceSheetChange(f)
    \/ \E f \in Files \cup {NoFile} : handleCompanyProfileChange(f)
    \/ PPTHandleUpload
    \/ \E i \in 1..Len(uploadReqs) : PPTUploadSucceeds(i)
    \/ \E i \in 1..Len(uploadReqs), text \in ErrorTexts, errs \in ErrorLists :
           PPTUploadRejected(i, text, errs)
    \/ \E i \in 1..Len(uploadReqs), text \in ErrorTexts : PPTUploadFails(i, text)
    \/ \E i \in 1..Len(recReqs), list \in RecommendedLists : RecommendationsArrive(i, list)
    \/ \E i \in 1..Len(recReqs) : RecommendationsFail(i)
    \/ \E t \in SlideTypes : handleSlideToggle(t)
    \/ handleGenerate
    \/ \E i \in 1..Len(genReqs) : \E deck \in Decks(genReqs[i]) : GenerateSucceeds(i, deck)
    \/ \E i \in 1..Len(genReqs), text \in ErrorTexts : GenerateFails(i, text)
    \/ handleReset

\* the presentation flow of the unified dashboard, up to the download of the
\* generated file (downloads change no state any action above reads)
SpecPPT == PPTInit /\ [][PPTNext]_vars

DownloadInit == Constructed("ppt")

\* the steps that lead to a download and the download itself; the
\* recommendation fetch stays unanswered and uploads succeed
DownloadNext ==
    \/ \E f \in Files : handleBalanceSheetChange(f)
    \/ \E f \in Files : handleCompanyProfileChange(f)
    \/ PPTHandleUpload
    \/ \E i \in 1..Len(uploadReqs) : PPTUploadSucceeds(i)
    \/ handleGenerate
    \/ \E i \in 1..Len(genReqs) : \E deck \in Decks(genReqs[i]) : GenerateSucceeds(i, deck)
    \/ \E i \in 1..Len(genReqs), text \in ErrorTexts : GenerateFails(i, text)
    \/ handleReset
    \/ handleDownload
    \/ \E i \in 1..Len(downloadReqs) : DownloadSucceeds(i)
    \/ \E i \in 1..Len(downloadReqs), text \in ErrorTexts : DownloadFails(i, text)

\* the download path of the presentation flow: every behaviour of it is a
\* behaviour of the dashboard
SpecDownload == DownloadInit /\ [][DownloadNext]_vars

GenerateInit == Constructed("ppt")

\* the configuration of a presentation and its generation: uploads succeed,
\* the recommendation fetch answers, and the user picks slides, template and
\* theme between generate calls
GenerateNext ==
    \/ \E f \in Files : handleBalanceSheetChange(f)
    \/ \E f \in Files : handleCompanyProfileChange(f)
    \/ PPTHandleUpload
    \/ \E i \in 1..Len(uploadReqs) : PPTUploadSucceeds(i)
    \/ \E i \in 1..Len(recReqs), list \in RecommendedLists : RecommendationsArrive(i, list)
    \/ \E t \in SlideTypes : handleSlideToggle(t)
    \/ \E value \in Templates : setTemplate(value)
    \/ \E value \in Themes : setTheme(value)
    \/ handleGenerate
    \/ \E i \in 1..Len(genReqs) : \E deck \in Decks(genReqs[i]) : GenerateSucceeds(i, deck)
    \/ \E i \in 1..Len(genReqs), text \in ErrorTexts : GenerateFails(i, text)
    \/ handleReset

SpecGenerate == GenerateInit /\ [][GenerateNext]_vars

\* three of the AVAILABLE_SLIDES the panel shows a checkbox for
AvailableSlides == {"title", "executive", "financials"}

\* the lists of at most MaxLen slide types, repetitions included: the backend
\* decides what recommended_slides holds
Selections == UNION { [1..n -> AvailableSlides] : n \in 0..MaxLen }

\* the session view right after the first upload and the answer to its
\* recommendation fetch: the panel's effect has copied a non-empty list
ToggleInit ==
    \E list \in Selections :
        /\ stats = NoStats
        /\ activeView = "ppt"
        /\ sessionId = 1
        /\ nextSid = 2
        /\ recommendations = [present |-> TRUE, slides |-> list, sid |-> 1]
        /\ selectedSlides = EffectOnRecommendations(DefaultSlides, list)
        /\ selOrigin = IF Len(list) > 0 THEN 1 ELSE NoSession
        /\ slides = <<>>
        /\ generating = FALSE
        /\ metadata = NoMetadata
        /\ error = NoText
        /\ balanceSheet = NoFile
        /\ companyProfile = NoFile
        /\ uploading = FALSE
        /\ uploadError = NoText
        /\ template = DefaultTemplate
        /\ theme = DefaultTheme
        /\ currentSlideIndex = 0
        /\ uploadReqs = <<>>
        /\ recReqs = <<>>
        /\ genReqs = <<>>
        /\ uploadStatus = "idle"
        /\ isProcessing = FALSE
        /\ processingStatus = NoText
        /\ processingComplete = FALSE
        /\ hideTimer = FALSE
        /\ stageTimers = <<>>
        /\ selectedFile = NoFile
        /\ messages = <<>>
        /\ isLoading = FALSE
        /\ chatInst = 0
        /\ alertText = NoText
        /\ chatReqs = <<>>
        /\ downloadReqs = <<>>
        /\ generated = {}

ToggleNext == \E slideValue \in AvailableSlides : handleSlideToggle(slideValue)

\* the checkboxes of the panel, clicked in any order on any selection
SpecToggle == ToggleInit /\ [][ToggleNext]_vars

(***************************************************************************)
(* ChatInterface: mounted while its dashboard holds a session              *)
(***************************************************************************)
\* mutant of ChatInterfaceMounted: the chat is on screen without a session
ChatInterfaceAlwaysMounted == TRUE

\* the dashboard returns its upload view, without ChatInterface, while it
\* holds no session, and the chat flow is rendered only in its own view or tab
ChatInterfaceMounted == sessionId # NoSession /\ activeView = "rag"

\* an optional field of a JSON answer
Undefined == [defined |-> FALSE, value |-> <<>>]
Defined(v) == [defined |-> TRUE, value |-> v]

\* a turn's metadata: {} , or no metadata property at all
EmptyMetadata == [present |-> TRUE, empty |-> TRUE, citations |-> Undefined,
                  grounded |-> Undefined, pipeline |-> Undefined]
MissingMetadata == [present |-> FALSE, empty |-> TRUE, citations |-> Undefined,
                    grounded |-> Undefined, pipeline |-> Undefined]

\* one ChatTurn; content is a tuple of text pieces (a + of strings); sid is a
\* history field: the session the turn was written for
Turn(role, content, md, sid) ==
    [role |-> role, content |-> content, metadata |-> md, sid |-> sid]

Greeting == Turn("assistant", <<"Hello! I can help you analyze your balance sheet.">>,
                 EmptyMetadata, NoSession)

\* useState's initial value of messages
InitialMessages == <<Greeting>>

\* what the user may type: a question, or blanks only
Inputs == {"What is total equity?", " "}
Trimmed(text) == IF text = " " THEN "" ELSE text

\* mutant of Stripped: the turns are sent as they are held, metadata included
Unstripped(msgs) == msgs

\* messages.map(msg => ({role, content}))
Stripped(msgs) ==
    [k \in 1..Len(msgs) |-> [role |-> msgs[k].role, content |-> msgs[k].content]]

\* mutant of SendRejected: the guard forgets the request in flight
SendRejectedIgnoresLoading(text) == Trimmed(text) = ""

\* handleSend's early return (the submit button's disabled expression repeats it)
SendRejected(text) == Trimmed(text) = "" \/ isLoading

\* handleSend up to its await
handleSend(text) ==
    /\ ChatInterfaceMounted
    /\ ~SendRejected(text)
    /\ CanSend(chatReqs)
    /\ Len(messages) + 2 <= MaxMessages
    /\ messages' = Append(messages, Turn("user", <<text>>, MissingMetadata, sessionId))
    /\ isLoading' = TRUE
    /\ chatReqs' = Append(chatReqs, [session_id |-> sessionId, question |-> text,
                                     chat_history |-> Stripped(messages),
                                     inst |-> chatInst])
    /\ UNCHANGED <<sessionId, error, balanceSheet, companyProfile, uploadStatus,
                   ragFormVars, selectedFile, chatInst, alertText, uploadReqs, nextSid, stats,
                   pptOnly>>

\* the optional fields of a successful chat answer: all present, or all absent
AnswerFields ==
    { [citations |-> Defined(<<"Balance Sheet">>), grounding_check |-> Defined(TRUE),
       pipeline |-> Defined("structured")],
      [citations |-> Undefined, grounding_check |-> Undefined, pipeline |-> Undefined] }

\* the metadata of the assistant turn of a successful answer
AnswerMetadata(response) ==
    [present |-> TRUE, empty |-> FALSE,
     citations |-> IF response.citations.defined THEN response.citations
                   ELSE Defined(<<>>),
     grounded |-> response.grounding_check,
     pipeline |-> response.pipeline]

\* mutant of ChatInstanceMounted: a completion reaches whatever instance is mounted
ChatInstanceAlwaysMounted(req) == TRUE

\* whether the ChatInterface instance that issued req is still the mounted one;
\* React drops the state updates of an unmounted instance
ChatInstanceMounted(req) == ChatInterfaceMounted /\ req.inst = chatInst

\* the history after the completion of req appended turn
Completed(req, turn) == IF ChatInstanceMounted(req) THEN Append(messages, turn) ELSE messages

\* mutant of ErrorTurn: the failure branch appends nothing
NoErrorTurn(req, text) == messages

\* mutant of ErrorTurn: the failure branch reports no cause
ErrorTurnWithoutText(req, text) ==
    Completed(req, Turn("assistant", <<"Sorry, I encountered an error: ", "Unknown error">>,
                        EmptyMetadata, req.session_id))

\* the history after a failed chat request
ErrorTurn(req, text) ==
    Completed(req, Turn("assistant", <<"Sorry, I encountered an error: ", text>>,
                        EmptyMetadata, req.session_id))

ChatFrame ==
    UNCHANGED <<sessionId, error, balanceSheet, companyProfile, uploadStatus,
                ragFormVars, selectedFile, chatInst, alertText, uploadReqs, nextSid,
                pptOnly>>

\* handleSend after its await, response.success true
ChatAnswers(i, fields) ==
    /\ CanCount("ragQueries")
    /\ stats' = updateStats("ragQueries")
    /\ chatReqs' = RemoveAt(chatReqs, i)
    /\ messages' = Completed(chatReqs[i],
                       Turn("assistant", <<"answer to ", chatReqs[i].question>>,
                            AnswerMetadata(fields), chatReqs[i].session_id))
    /\ isLoading' = IF ChatInstanceMounted(chatReqs[i]) THEN FALSE ELSE isLoading
    /\ ChatFrame

\* handleSend after its await, response.success falsy: response.error || 'Unknown error'
ChatRejected(i, text) ==
    /\ chatReqs' = RemoveAt(chatReqs, i)
    /\ messages' = ErrorTurn(chatReqs[i], Or(text, "Unknown error"))
    /\ isLoading' = IF ChatInstanceMounted(chatReqs[i]) THEN FALSE ELSE isLoading
    /\ UNCHANGED stats
    /\ ChatFrame

\* sendChatMessage threw: Error(backend error || error.message || 'Chat request failed')
ChatThrows(i, text) ==
    /\ chatReqs' = RemoveAt(chatReqs, i)
    /\ messages' = ErrorTurn(chatReqs[i], Or(text, "Chat request failed"))
    /\ isLoading' = IF ChatInstanceMounted(chatReqs[i]) THEN FALSE ELSE isLoading
    /\ UNCHANGED stats
    /\ ChatFrame

ChatNext ==
    \/ \E text \in Inputs : handleSend(text)
    \/ \E i \in 1..Len(chatReqs), fields \in AnswerFields : ChatAnswers(i, fields)
    \/ \E i \in 1..Len(chatReqs), text \in ErrorTexts : ChatRejected(i, text)
    \/ \E i \in 1..Len(chatReqs), text \in ErrorTexts : ChatThrows(i, text)

(***************************************************************************)
(* RAGDashboard and RAGFileUpload (unified dashboard, chat flow)           *)
(***************************************************************************)
RAGFileUploadMounted == sessionId = NoSession /\ activeView = "rag"

RAGFrame == UNCHANGED <<selectedFile, pptOnly>>

\* handleChange(e, type): a file picked for one of the two slots
RAGHandleChange(type, f) ==
    /\ RAGFileUploadMounted
    /\ IF type = "balance_sheet"
       THEN balanceSheet' = f /\ UNCHANGED companyProfile
       ELSE companyProfile' = f /\ UNCHANGED balanceSheet
    /\ UNCHANGED <<sessionId, error, uploadStatus, ragFormVars, chatVars, alertText,
                   uploadReqs, nextSid, stats>>
    /\ RAGFrame

\* labels of handleUpload's simulated progress, in the order of their delays
\* (the first and the last of the five: 500 and 6000 ms)
StageLabels ==
    <<"Extracting text from documents...", "Indexing in vector database...">>

\* the labels handleUpload sets once the request has resolved
TerminalLabels == {"Ready for chatbot!", "Processing failed"}

\* the Upload & Process button's disabled expression
RAGUploadDisabled == balanceSheet = NoFile \/ isProcessing

\* mutant of RAGValidate: the form is turned away whatever it holds
RAGValidateRejectsAll(bs) == "Please upload a balance sheet file"

\* handleUpload's validation: the text it alerts, NoText when the slot is filled
RAGValidate(bs) ==
    IF bs = NoFile THEN "Please upload a balance sheet file" ELSE NoText

\* mutant of RAGUploadForm: the optional slot is sent even when it is empty
RAGUploadFormAlwaysBoth(bs, cp) ==
    [balance_sheet |-> bs, company_profile |-> Defined(cp)]

\* uploadRAGFile's form: company_profile is appended only when one was given
RAGUploadForm(bs, cp) ==
    [balance_sheet |-> bs, company_profile |-> IF cp # NoFile THEN Defined(cp) ELSE Undefined]

\* RAGFileUpload.handleUpload up to its await, through onUpload =
\* RAGDashboard.handleFileUpload up to its await
RAGHandleUploadBody ==
    IF RAGValidate(balanceSheet) # NoText
    THEN /\ alertText' = RAGValidate(balanceSheet)
         /\ UNCHANGED <<isProcessing, processingComplete, processingStatus, uploadStatus,
                        error, uploadReqs, stageTimers>>
    ELSE /\ CanSend(uploadReqs)
         /\ isProcessing' = TRUE
         /\ processingComplete' = FALSE
         /\ processingStatus' = "Uploading files..."
         /\ Len(stageTimers) < MaxBatches
         /\ stageTimers' = Append(stageTimers, StageLabels)
         /\ uploadStatus' = "uploading"
         /\ error' = NoText
         /\ uploadReqs' = Append(uploadReqs, RAGUploadForm(balanceSheet, companyProfile))
         /\ UNCHANGED alertText

\* a click on the Upload & Process button
RAGHandleUpload ==
    /\ RAGFileUploadMounted
    /\ ~RAGUploadDisabled
    /\ RAGHandleUploadBody
    /\ UNCHANGED <<sessionId, balanceSheet, companyProfile, hideTimer, chatVars, nextSid, stats>>
    /\ RAGFrame

\* handleFileUpload after its await, data.success true: the session is stored,
\* RAGFileUpload unmounts (state and timers dropped) and ChatInterface mounts
RAGUploadSucceeds(i) ==
    /\ nextSid <= MaxSessions
    /\ CanCount("documentsProcessed")
    /\ stats' = updateStats("documentsProcessed")
    /\ uploadReqs' = RemoveAt(uploadReqs, i)
    /\ sessionId' = nextSid
    /\ nextSid' = nextSid + 1
    /\ uploadStatus' = "success"
    /\ balanceSheet' = NoFile
    /\ companyProfile' = NoFile
    /\ isProcessing' = FALSE
    /\ processingStatus' = NoText
    /\ processingComplete' = FALSE
    /\ hideTimer' = FALSE
    /\ stageTimers' = <<>>
    /\ messages' = InitialMessages
    /\ isLoading' = FALSE
    /\ chatInst' = chatInst + 1
    /\ UNCHANGED <<error, alertText, chatReqs>>
    /\ RAGFrame

\* handleFileUpload after its await, data.success falsy: it returns data, so
\* handleUpload goes on as after a success
RAGUploadRejected(i, text) ==
    /\ uploadReqs' = RemoveAt(uploadReqs, i)
    /\ uploadStatus' = "error"
    /\ error' = UploadFailureMessage(text)
    /\ processingStatus' = "Ready for chatbot!"
    /\ processingComplete' = TRUE
    /\ hideTimer' = TRUE
    /\ UNCHANGED <<sessionId, balanceSheet, companyProfile, isProcessing, stageTimers,
                   chatVars, alertText, nextSid, stats>>
    /\ RAGFrame

\* uploadRAGFile threw Error(backend error || error.message || 'Upload failed'):
\* handleFileUpload rethrows and handleUpload's catch runs
RAGUploadThrows(i, text) ==
    /\ uploadReqs' = RemoveAt(uploadReqs, i)
    /\ uploadStatus' = "error"
    /\ error' = UploadFailureMessage(text)
    /\ processingStatus' = "Processing failed"
    /\ hideTimer' = TRUE
    /\ UNCHANGED <<sessionId, balanceSheet, companyProfile, isProcessing, stageTimers,
                   processingComplete, chatVars, alertText, nextSid, stats>>
    /\ RAGFrame

\* mutant of HideTimerFires: the callback runs without clearing the busy flag
HideTimerForgets ==
    /\ hideTimer
    /\ hideTimer' = FALSE
    /\ UNCHANGED <<sessionId, error, balanceSheet, companyProfile, uploadStatus,
                   isProcessing, processingStatus, processingComplete, stageTimers,
                   chatVars, alertText, uploadReqs, nextSid, stats>>
    /\ RAGFrame

\* the timer handleUpload set after the request resolved: setIsProcessing(false)
HideTimerFires ==
    /\ hideTimer
    /\ hideTimer' = FALSE
    /\ isProcessing' = FALSE
    /\ UNCHANGED <<sessionId, error, balanceSheet, companyProfile, uploadStatus,
                   processingStatus, processingComplete, stageTimers, chatVars,
                   alertText, uploadReqs, nextSid, stats>>
    /\ RAGFrame

\* the batch left once its next stage timer has fired
AfterStage(b) ==
    IF Len(stageTimers[b]) = 1
    THEN RemoveAt(stageTimers, b)
    ELSE [stageTimers EXCEPT ![b] = Tail(@)]

\* one of the setTimeout callbacks of handleUpload's simulated progress runs:
\* setProcessingStatus(label).  Nothing ever clears these timers; those of one
\* call fire in the order of their delays
StageTimerFires(b) ==
    /\ RAGFileUploadMounted
    /\ processingStatus' = Head(stageTimers[b])
    /\ stageTimers' = AfterStage(b)
    /\ UNCHANGED <<sessionId, error, balanceSheet, companyProfile, uploadStatus,
                   isProcessing, processingComplete, hideTimer, chatVars, alertText,
                   uploadReqs, nextSid, stats>>
    /\ RAGFrame

\* the history held once the dashboard has dropped its session: ChatInterface
\* unmounts and its state is gone
MessagesAfterReset == <<>>

\* RAGDashboard.handleReset (the Upload New button of the chat view)
RAGHandleReset ==
    /\ sessionId # NoSession
    /\ sessionId' = NoSession
    /\ uploadStatus' = "idle"
    /\ error' = NoText
    /\ messages' = MessagesAfterReset
    /\ isLoading' = FALSE
    /\ UNCHANGED <<balanceSheet, companyProfile, ragFormVars, chatInst, chatReqs,
                   alertText, uploadReqs, nextSid, stats>>
    /\ RAGFrame

RAGInit == Constructed("rag")

RAGNext ==
    \/ \E type \in {"balance_sheet", "company_profile"}, f \in Files : RAGHandleChange(type, f)
    \/ RAGHandleUpload
    \/ \E i \in 1..Len(uploadReqs) : RAGUploadSucceeds(i)
    \/ \E i \in 1..Len(uploadReqs), text \in ErrorTexts : RAGUploadRejected(i, text)
    \/ \E i \in 1..Len(uploadReqs), text \in ErrorTexts : RAGUploadThrows(i, text)
    \/ HideTimerFires
    \/ \E b \in 1..Len(stageTimers) : StageTimerFires(b)
    \/ RAGHandleReset
    \/ ChatNext

\* the chat flow of the unified dashboard
SpecRAG == RAGInit /\ [][RAGNext]_vars

(***************************************************************************)
(* balance-sheet-rag: App and FileUpload (stand-alone application)         *)
(***************************************************************************)
\* the files a user of balance-sheet-rag may pick or drop
BSRFiles == Files \cup {<<"LEDGER", "TXT">>}

\* String.prototype.toLowerCase on the name pieces in use
ToLowerCase(piece) ==
    CASE piece = "LEDGER" -> "ledger"
      [] piece = "TXT" -> "txt"
      [] OTHER -> piece

\* file.name.split('.').pop().toLowerCase()
FileExt(f) == ToLowerCase(f[Len(f)])

AllowedExts == <<"csv", "txt", "text">>

\* the extensions the file inputs of the unified dashboard name in their accept
\* attributes (and RAGFileUpload.handleFiles in its allowedExts)
AcceptedExts == {"csv", "txt", "text", "pdf", "xlsx"}

BSRFileUploadMounted == sessionId = NoSession

BSRFrame == UNCHANGED <<error, balanceSheet, companyProfile, processingStatus,
                        processingComplete, hideTimer, stageTimers, isLoading, chatReqs,
                        pptOnly>>

\* FileUpload.handleFile (from handleChange or handleDrop) through onUpload =
\* App.handleFileUpload up to its await; neither looks at isProcessing
BSRHandleFile(f) ==
    /\ BSRFileUploadMounted
    /\ IF ~Includes(AllowedExts, FileExt(f))
       THEN /\ alertText' = "Please upload a CSV or TXT file"
            /\ UNCHANGED <<selectedFile, isProcessing, uploadStatus, uploadReqs>>
       ELSE /\ CanSend(uploadReqs)
            /\ selectedFile' = f
            /\ isProcessing' = TRUE
            /\ uploadStatus' = "processing"
            /\ uploadReqs' = Append(uploadReqs, RAGUploadForm(f, NoFile))
            /\ UNCHANGED alertText
    /\ UNCHANGED <<sessionId, messages, chatInst, nextSid, stats>>
    /\ BSRFrame

\* handleFileUpload after its await, data.success true.  With no session on
\* screen FileUpload unmounts and ChatInterface mounts; with a session already
\* on screen the mounted ChatInterface only gets a new sessionId prop
BSRUploadSucceeds(i) ==
    /\ nextSid <= MaxSessions
    /\ UNCHANGED stats
    /\ uploadReqs' = RemoveAt(uploadReqs, i)
    /\ sessionId' = nextSid
    /\ nextSid' = nextSid + 1
    /\ uploadStatus' = "success"
    /\ isProcessing' = FALSE
    /\ selectedFile' = NoFile
    /\ IF sessionId = NoSession
       THEN /\ messages' = <<Turn("assistant", Greeting.content, MissingMetadata, NoSession)>>
            /\ chatInst' = chatInst + 1
       ELSE UNCHANGED <<messages, chatInst>>
    /\ UNCHANGED alertText
    /\ BSRFrame

\* handleFileUpload after its await, data.success falsy
BSRUploadRejected(i, text) ==
    /\ uploadReqs' = RemoveAt(uploadReqs, i)
    /\ uploadStatus' = "error"
    /\ alertText' = Or(text, "Upload failed")
    /\ isProcessing' = FALSE
    /\ UNCHANGED <<sessionId, selectedFile, messages, chatInst, nextSid, stats>>
    /\ BSRFrame

\* uploadFile threw Error(backend error || error.message || 'Upload failed')
BSRUploadThrows(i, text) ==
    /\ uploadReqs' = RemoveAt(uploadReqs, i)
    /\ uploadStatus' = "error"
    /\ alertText' = IF text = NoText THEN "Error uploading file: Upload failed"
                    ELSE "Error uploading file: timeout"
    /\ isProcessing' = FALSE
    /\ UNCHANGED <<sessionId, selectedFile, messages, chatInst, nextSid, stats>>
    /\ BSRFrame

\* App.handleReset (the Upload New File button)
BSRHandleReset ==
    /\ sessionId # NoSession
    /\ sessionId' = NoSession
    /\ uploadStatus' = "idle"
    /\ isProcessing' = FALSE
    /\ messages' = MessagesAfterReset
    /\ UNCHANGED <<selectedFile, chatInst, alertText, uploadReqs, nextSid, stats>>
    /\ BSRFrame

BSRInit == Constructed("rag")

BSRNext ==
    \/ \E f \in BSRFiles : BSRHandleFile(f)
    \/ \E i \in 1..Len(uploadReqs) : BSRUploadSucceeds(i)
    \/ \E i \in 1..Len(uploadReqs), text \in ErrorTexts : BSRUploadRejected(i, text)
    \/ \E i \in 1..Len(uploadReqs), text \in ErrorTexts : BSRUploadThrows(i, text)
    \/ BSRHandleReset

\* the upload pipeline of the stand-alone balance-sheet-rag application
SpecBSR == BSRInit /\ [][BSRNext]_vars

(***************************************************************************)
(* The submit handlers of the two-slot upload forms, called as functions:  *)
(* the Upload buttons are disabled while their handlers would turn the     *)
(* form away, so the handlers' own validation shows only when they are     *)
(* invoked whatever the button's state                                     *)
(***************************************************************************)
\* PPTFileUpload.handleUpload (and ppt-generator's FileUpload.handleUpload)
PPTSubmit ==
    /\ activeView = "ppt"
    /\ PPTFileUploadMounted
    /\ PPTHandleUploadBody
    /\ UNCHANGED <<dashVars, balanceSheet, companyProfile, panelVars, recReqs, genReqs,
                   nextSid, stats, artifactVars, notPPT>>

\* RAGFileUpload.handleUpload
RAGSubmit ==
    /\ activeView = "rag"
    /\ RAGFileUploadMounted
    /\ RAGHandleUploadBody
    /\ UNCHANGED <<sessionId, balanceSheet, companyProfile, hideTimer, chatVars, nextSid, stats>>
    /\ RAGFrame

SubmitInit == \E view \in {"ppt", "rag"} : Constructed(view)

SubmitNext ==
    \/ \E f \in Files \cup {NoFile} : activeView = "ppt" /\ handleBalanceSheetChange(f)
    \/ \E f \in Files \cup {NoFile} : activeView = "ppt" /\ handleCompanyProfileChange(f)
    \/ PPTSubmit
    \/ \E i \in 1..Len(uploadReqs), text \in ErrorTexts, errs \in ErrorLists :
           activeView = "ppt" /\ PPTUploadRejected(i, text, errs)
    \/ \E i \in 1..Len(uploadReqs), text \in ErrorTexts :
           activeView = "ppt" /\ PPTUploadFails(i, text)
    \/ \E type \in {"balance_sheet", "company_profile"}, f \in Files :
           activeView = "rag" /\ RAGHandleChange(type, f)
    \/ RAGSubmit
    \/ \E i \in 1..Len(uploadReqs), text \in ErrorTexts :
           activeView = "rag" /\ RAGUploadRejected(i, text)
    \/ \E i \in 1..Len(uploadReqs), text \in ErrorTexts :
           activeView = "rag" /\ RAGUploadThrows(i, text)
    \/ activeView = "rag" /\ HideTimerFires
    \/ \E b \in 1..Len(stageTimers) : activeView = "rag" /\ StageTimerFires(b)

\* the upload forms of the unified dashboard under arbitrary calls of their
\* submit handlers
SpecSubmit == SubmitInit /\ [][SubmitNext]_vars

(***************************************************************************)
(* The upload pipelines of the unified dashboard, in the view the user     *)
(* opened, with the controls as rendered                                   *)
(***************************************************************************)
UploadInit == \E view \in {"ppt", "rag"} : Constructed(view)

UploadNext ==
    \/ \E f \in Files \cup {NoFile} : activeView = "ppt" /\ handleBalanceSheetChange(f)
    \/ \E f \in Files \cup {NoFile} : activeView = "ppt" /\ handleCompanyProfileChange(f)
    \/ activeView = "ppt" /\ PPTHandleUpload
    \/ \E i \in 1..Len(uploadReqs) : activeView = "ppt" /\ PPTUploadSucceeds(i)
    \/ \E i \in 1..Len(uploadReqs), text \in ErrorTexts, errs \in ErrorLists :
           activeView = "ppt" /\ PPTUploadRejected(i, text, errs)
    \/ \E i \in 1..Len(uploadReqs), text \in ErrorTexts :
           activeView = "ppt" /\ PPTUploadFails(i, text)
    \/ activeView = "ppt" /\ handleReset
    \/ \E type \in {"balance_sheet", "company_profile"}, f \in Files :
           activeView = "rag" /\ RAGHandleChange(type, f)
    \/ activeView = "rag" /\ RAGHandleUpload
    \/ \E i \in 1..Len(uploadReqs) : activeView = "rag" /\ RAGUploadSucceeds(i)
    \/ \E i \in 1..Len(uploadReqs), text \in ErrorTexts :
           activeView = "rag" /\ RAGUploadRejected(i, text)
    \/ \E i \in 1..Len(uploadReqs), text \in ErrorTexts :
           activeView = "rag" /\ RAGUploadThrows(i, text)
    \/ activeView = "rag" /\ HideTimerFires
    \/ \E b \in 1..Len(stageTimers) : activeView = "rag" /\ StageTimerFires(b)
    \/ activeView = "rag" /\ RAGHandleReset

\* the two upload pipelines without what follows an upload (generation, chat)
SpecUpload == UploadInit /\ [][UploadNext]_vars

(***************************************************************************)
(* The requests of the two flows and their outcomes: the upload pipelines, *)
(* generation and chat, in the view the user opened; the recommendation    *)
(* fetch stays unanswered and the selection is left at its default         *)
(***************************************************************************)
ResponsesInit == \E view \in {"ppt", "rag"} : Constructed(view)

ResponsesNext ==
    \/ \E f \in Files : activeView = "ppt" /\ handleBalanceSheetChange(f)
    \/ \E f \in Files : activeView = "ppt" /\ handleCompanyProfileChange(f)
    \/ activeView = "ppt" /\ PPTHandleUpload
    \/ \E i \in 1..Len(uploadReqs) : activeView = "ppt" /\ PPTUploadSucceeds(i)
    \/ \E i \in 1..Len(uploadReqs), text \in ErrorTexts, errs \in ErrorLists :
           activeView = "ppt" /\ PPTUploadRejected(i, text, errs)
    \/ \E i \in 1..Len(uploadReqs), text \in ErrorTexts :
           activeView = "ppt" /\ PPTUploadFails(i, text)
    \/ activeView = "ppt" /\ handleGenerate
    \/ \E i \in 1..Len(genReqs) : \E deck \in Decks(genReqs[i]) :
           activeView = "ppt" /\ GenerateSucceeds(i, deck)
    \/ \E i \in 1..Len(genReqs), text \in ErrorTexts :
           activeView = "ppt" /\ GenerateFails(i, text)
    \/ activeView = "ppt" /\ handleReset
    \/ \E type \in {"balance_sheet", "company_profile"}, f \in Files :
           activeView = "rag" /\ RAGHandleChange(type, f)
    \/ activeView = "rag" /\ RAGHandleUpload
    \/ \E i \in 1..Len(uploadReqs) : activeView = "rag" /\ RAGUploadSucceeds(i)
    \/ \E i \in 1..Len(uploadReqs), text \in ErrorTexts :
           activeView = "rag" /\ RAGUploadRejected(i, text)
    \/ \E i \in 1..Len(uploadReqs), text \in ErrorTexts :
           activeView = "rag" /\ RAGUploadThrows(i, text)
    \/ activeView = "rag" /\ HideTimerFires
    \/ \E b \in 1..Len(stageTimers) : activeView = "rag" /\ StageTimerFires(b)
    \/ activeView = "rag" /\ RAGHandleReset
    \/ \E text \in Inputs : activeView = "rag" /\ handleSend(text)
    \/ \E i \in 1..Len(chatReqs), fields \in AnswerFields :
           activeView = "rag" /\ ChatAnswers(i, fields)
    \/ \E i \in 1..Len(chatReqs), text \in ErrorTexts :
           activeView = "rag" /\ ChatRejected(i, text)
    \/ \E i \in 1..Len(chatReqs), text \in ErrorTexts :
           activeView = "rag" /\ ChatThrows(i, text)

\* every behaviour of it is a behaviour of the dashboard
SpecResponses == ResponsesInit /\ [][ResponsesNext]_vars

(***************************************************************************)

(* The same, with the event loop running every timer callback that is due  *)
(***************************************************************************)
\* a setTimeout callback that stays pending is eventually run
SpecResponsesFair == SpecResponses /\ WF_vars(activeView = "rag" /\ HideTimerFires)

(***************************************************************************)

(* Dashboard: the sidebar mounts one of Overview, RAGDashboard and         *)
(* PPTDashboard; each of the two dashboards keeps its session in its own   *)
(* state                                                                   *)
(***************************************************************************)
Views == {"overview", "rag", "ppt"}

\* a click on a sidebar entry (or on a card of Overview): setActiveView(view).
\* The component of the view left unmounts and the one of the view entered
\* mounts as constructed; the requests and timers of the unmounted component
\* find nothing to update and are no longer followed
setActiveView(view) ==
    /\ view # activeView
    /\ activeView' = view
    /\ sessionId' = NoSession
    /\ slides' = <<>>
    /\ generating' = FALSE
    /\ metadata' = NoMetadata
    /\ error' = NoText
    /\ recommendations' = NoRecommendations
    /\ balanceSheet' = NoFile
    /\ companyProfile' = NoFile
    /\ uploading' = FALSE
    /\ uploadError' = NoText
    /\ selectedSlides' = DefaultSlides
    /\ selOrigin' = NoSession
    /\ template' = DefaultTemplate
    /\ theme' = DefaultTheme
    /\ currentSlideIndex' = 0
    /\ uploadStatus' = "idle"
    /\ isProcessing' = FALSE
    /\ processingStatus' = NoText
    /\ processingComplete' = FALSE
    /\ hideTimer' = FALSE
    /\ stageTimers' = <<>>
    /\ messages' = <<>>
    /\ isLoading' = FALSE
    /\ uploadReqs' = <<>>
    /\ recReqs' = <<>>
    /\ genReqs' = <<>>
    /\ chatReqs' = <<>>
    /\ downloadReqs' = <<>>
    /\ UNCHANGED <<selectedFile, chatInst, alertText, nextSid, stats, generated>>

DashboardInit == Constructed("overview")

DashboardNext ==
    \/ \E view \in Views : setActiveView(view)
    \/ \E f \in Files \cup {NoFile} : activeView = "ppt" /\ handleBalanceSheetChange(f)
    \/ \E f \in Files \cup {NoFile} : activeView = "ppt" /\ handleCompanyProfileChange(f)
    \/ activeView = "ppt" /\ PPTHandleUpload
    \/ \E i \in 1..Len(uploadReqs) : activeView = "ppt" /\ PPTUploadSucceeds(i)
    \/ \E i \in 1..Len(uploadReqs), text \in ErrorTexts, errs \in ErrorLists :
           activeView = "ppt" /\ PPTUploadRejected(i, text, errs)
    \/ \E i \in 1..Len(uploadReqs), text \in ErrorTexts :
           activeView = "ppt" /\ PPTUploadFails(i, text)
    \/ \E i \in 1..Len(recReqs), list \in RecommendedLists :
           activeView = "ppt" /\ RecommendationsArrive(i, list)
    \/ \E i \in 1..Len(recReqs) : activeView = "ppt" /\ RecommendationsFail(i)
    \/ \E t \in SlideTypes : activeView = "ppt" /\ handleSlideToggle(t)
    \/ activeView = "ppt" /\ handleGenerate
    \/ \E i \in 1..Len(genReqs) : \E deck \in Decks(genReqs[i]) :
           activeView = "ppt" /\ GenerateSucceeds(i, deck)
    \/ \E i \in 1..Len(genReqs), text \in ErrorTexts :
           activeView = "ppt" /\ GenerateFails(i, text)
    \/ activeView = "ppt" /\ handleReset
    \/ \E type \in {"balance_sheet", "company_profile"}, f \in Files :
           activeView = "rag" /\ RAGHandleChange(type, f)
    \/ activeView = "rag" /\ RAGHandleUpload
    \/ \E i \in 1..Len(uploadReqs) : activeView = "rag" /\ RAGUploadSucceeds(i)
    \/ \E i \in 1..Len(uploadReqs), text \in ErrorTexts :
           activeView = "rag" /\ RAGUploadRejected(i, text)
    \/ \E i \in 1..Len(uploadReqs), text \in ErrorTexts :
           activeView = "rag" /\ RAGUploadThrows(i, text)
    \/ activeView = "rag" /\ HideTimerFires
    \/ \E b \in 1..Len(stageTimers) : activeView = "rag" /\ StageTimerFires(b)
    \/ activeView = "rag" /\ RAGHandleReset
    \/ \E text \in Inputs : activeView = "rag" /\ handleSend(text)
    \/ \E i \in 1..Len(chatReqs), fields \in AnswerFields :
           activeView = "rag" /\ ChatAnswers(i, fields)
    \/ \E i \in 1..Len(chatReqs), text \in ErrorTexts :
           activeView = "rag" /\ ChatRejected(i, text)
    \/ \E i \in 1..Len(chatReqs), text \in ErrorTexts :
           activeView = "rag" /\ ChatThrows(i, text)

\* the unified dashboard: the sidebar and the two flows
SpecDashboard == DashboardInit /\ [][DashboardNext]_vars

(***************************************************************************)

(* App (tabbed application): the sessions live in App, RAGFileUpload and   *)
(* ChatInterface are rendered only while the RAG tab is the active one.    *)
(* activeView holds activeTab; isProcessingRAG, which only shows a status  *)
(* line, and the presentation tab's own state are left out                 *)
(***************************************************************************)
\* chat instances that may be mounted in one run
MaxMounts == 2

\* the request of RAGFileUpload.handleUpload; formMounted is a history field:
\* whether the form instance that awaits the request is still mounted
AppUploadForm(bs, cp) ==
    [balance_sheet |-> bs,
     company_profile |-> IF cp # NoFile THEN Defined(cp) ELSE Undefined,
     formMounted |-> TRUE]

\* the requests in flight once the form that issued them has unmounted
Orphaned(reqs) == [k \in 1..Len(reqs) |-> [reqs[k] EXCEPT !.formMounted = FALSE]]

\* a click on the Upload & Process button: RAGFileUpload.handleUpload up to its
\* await, through onUpload = App.handleRAGFileUpload up to its await
AppHandleUpload ==
    /\ RAGFileUploadMounted
    /\ ~RAGUploadDisabled
    /\ CanSend(uploadReqs)
    /\ Len(stageTimers) < MaxBatches
    /\ isProcessing' = TRUE
    /\ processingComplete' = FALSE
    /\ processingStatus' = "Uploading files..."
    /\ stageTimers' = Append(stageTimers, StageLabels)
    /\ uploadStatus' = "processing"
    /\ uploadReqs' = Append(uploadReqs, AppUploadForm(balanceSheet, companyProfile))
    /\ UNCHANGED <<sessionId, error, balanceSheet, companyProfile, hideTimer, chatVars,
                   alertText, nextSid, stats, selectedFile, pptOnly>>

\* handleRAGFileUpload after its await, data.success true: App stores the
\* session; in the RAG tab the form gives way to a fresh ChatInterface, while a
\* ChatInterface already on screen only gets a new sessionId prop
handleRAGFileUploadSucceeds(i) ==
    /\ nextSid <= MaxSessions
    /\ UNCHANGED stats
    /\ uploadReqs' = Orphaned(RemoveAt(uploadReqs, i))
    /\ sessionId' = nextSid
    /\ nextSid' = nextSid + 1
    /\ uploadStatus' = "success"
    /\ balanceSheet' = NoFile
    /\ companyProfile' = NoFile
    /\ isProcessing' = FALSE
    /\ processingStatus' = NoText
    /\ processingComplete' = FALSE
    /\ hideTimer' = FALSE
    /\ stageTimers' = <<>>
    /\ IF sessionId = NoSession /\ activeView = "rag"
       THEN /\ chatInst < MaxMounts
            /\ messages' = InitialMessages
            /\ isLoading' = FALSE
            /\ chatInst' = chatInst + 1
       ELSE UNCHANGED <<messages, isLoading, chatInst>>
    /\ UNCHANGED <<error, alertText, chatReqs, selectedFile, pptOnly>>

\* App.handleRAGReset (the Upload New Files button above the chat)
handleRAGReset ==
    /\ activeView = "rag"
    /\ sessionId # NoSession
    /\ sessionId' = NoSession
    /\ uploadStatus' = "idle"
    /\ messages' = MessagesAfterReset
    /\ isLoading' = FALSE
    /\ UNCHANGED <<error, balanceSheet, companyProfile, ragFormVars, chatInst, chatReqs,
                   alertText, uploadReqs, nextSid, stats, selectedFile, pptOnly>>

\* a click on a tab button: setActiveTab(tab).  Leaving the RAG tab unmounts
\* the form or the chat: the form's state and timers are gone, while messages
\* keeps the history last shown; entering the RAG tab with a session mounts a
\* fresh ChatInterface
setActiveTab(tab) ==
    /\ tab # activeView
    /\ activeView' = tab
    /\ IF tab = "rag" /\ sessionId # NoSession
       THEN /\ chatInst < MaxMounts
            /\ messages' = InitialMessages
            /\ isLoading' = FALSE
            /\ chatInst' = chatInst + 1
       ELSE UNCHANGED <<messages, isLoading, chatInst>>
    /\ balanceSheet' = NoFile
    /\ companyProfile' = NoFile
    /\ isProcessing' = FALSE
    /\ processingStatus' = NoText
    /\ processingComplete' = FALSE
    /\ hideTimer' = FALSE
    /\ stageTimers' = <<>>
    /\ uploadReqs' = Orphaned(uploadReqs)
    /\ UNCHANGED <<sessionId, error, uploadStatus, chatReqs, alertText, nextSid, stats,
                   selectedFile, slides, generating, metadata, recommendations, uploading,
                   uploadError, panelVars, recReqs, genReqs, artifactVars>>

TabsInit == Constructed("rag")

TabsNext ==
    \/ \E tab \in {"rag", "ppt"} : setActiveTab(tab)
    \/ \E f \in Files : RAGHandleChange("balance_sheet", f)
    \/ AppHandleUpload
    \/ \E i \in 1..Len(uploadReqs) : handleRAGFileUploadSucceeds(i)
    \/ \E b \in 1..Len(stageTimers) : StageTimerFires(b)
    \/ handleRAGReset
    \/ ChatNext

\* the RAG tab of the tabbed application, with a backend that accepts every
\* upload and a user who fills the required slot only
SpecTabs == TabsInit /\ [][TabsNext]_vars

(***************************************************************************)
(* Dashboard with its counters                                             *)
(***************************************************************************)
StatsInit == ConstructedWith("overview", InitialStats)

\* the three views with the requests that succeed or fail; the counters are
\* Dashboard's own state and outlive the views
StatsNext ==
    \/ \E view \in Views : setActiveView(view)
    \/ \E f \in Files : activeView = "ppt" /\ handleBalanceSheetChange(f)
    \/ \E f \in Files : activeView = "ppt" /\ handleCompanyProfileChange(f)
    \/ activeView = "ppt" /\ PPTHandleUpload
    \/ \E i \in 1..Len(uploadReqs) : activeView = "ppt" /\ PPTUploadSucceeds(i)
    \/ \E i \in 1..Len(uploadReqs), text \in ErrorTexts :
           activeView = "ppt" /\ PPTUploadFails(i, text)
    \/ activeView = "ppt" /\ handleGenerate
    \/ \E i \in 1..Len(genReqs) : \E deck \in Decks(genReqs[i]) :
           activeView = "ppt" /\ GenerateSucceeds(i, deck)
    \/ \E i \in 1..Len(genReqs), text \in ErrorTexts :
           activeView = "ppt" /\ GenerateFails(i, text)
    \/ \E f \in Files : activeView = "rag" /\ RAGHandleChange("balance_sheet", f)
    \/ activeView = "rag" /\ RAGHandleUpload
    \/ \E i \in 1..Len(uploadReqs) : activeView = "rag" /\ RAGUploadSucceeds(i)
    \/ \E i \in 1..Len(uploadReqs), text \in ErrorTexts :
           activeView = "rag" /\ RAGUploadThrows(i, text)
    \/ \E text \in Inputs : activeView = "rag" /\ handleSend(text)
    \/ \E i \in 1..Len(chatReqs), fields \in AnswerFields :
           activeView = "rag" /\ ChatAnswers(i, fields)
    \/ \E i \in 1..Len(chatReqs), text \in ErrorTexts :
           activeView = "rag" /\ ChatRejected(i, text)

SpecStats == StatsInit /\ [][StatsNext]_vars

(***************************************************************************)
(* The PPT tab of the tabbed application: sessionId, slides, generating,   *)
(* error, template and theme stand for App's pptSessionId, pptSlides,      *)
(* generatingPPT, pptError, pptTemplate and pptTheme                       *)
(***************************************************************************)
\* handlePPTUploadSuccess, called by PPTFileUpload.handleUpload after a
\* successful answer: the form unmounts and the panel and the results mount
handlePPTUploadSuccess(i) ==
    /\ nextSid <= MaxSessions
    /\ UNCHANGED stats
    /\ sessionId' = nextSid
    /\ nextSid' = nextSid + 1
    /\ error' = NoText
    /\ uploadReqs' = RemoveAt(uploadReqs, i)
    /\ balanceSheet' = NoFile
    /\ companyProfile' = NoFile
    /\ uploading' = FALSE
    /\ uploadError' = NoText
    /\ UNCHANGED <<slides, generating, metadata, recommendations, panelVars, recReqs,
                   genReqs, artifactVars, notPPT>>

\* generatePresentation's body as handlePPTGenerate fills it: config.slides is
\* an array, which is truthy even when empty, and the panel hands back the
\* template and theme it was given
AppGenerateBody(sid, config) ==
    [session_id |-> sid, slides |-> config.slides,
     template |-> Or(config.template, template), theme |-> Or(config.theme, theme)]

\* ConfigurationPanel.handleGenerate -> App.handlePPTGenerate up to its await
handlePPTGenerate ==
    /\ ConfigurationPanelMounted
    /\ ~GenerateDisabled
    /\ CanSend(genReqs)
    /\ generating' = TRUE
    /\ error' = NoText
    /\ genReqs' = Append(genReqs, AppGenerateBody(sessionId, GenerateConfig))
    /\ UNCHANGED <<sessionId, slides, metadata, recommendations, formVars, panelVars,
                   uploadReqs, recReqs, nextSid, stats, artifactVars, notPPT>>

\* handlePPTGenerate after its await, result.success true: setPptSlides; a
\* SlidePreview already on screen stays mounted and keeps its index
handlePPTGenerateSucceeds(i, deck) ==
    /\ genReqs' = RemoveAt(genReqs, i)
    /\ slides' = deck
    /\ generating' = FALSE
    /\ generated' = generated \cup {genReqs[i].session_id}
    /\ UNCHANGED <<sessionId, metadata, error, recommendations, formVars, panelVars,
                   uploadReqs, recReqs, nextSid, stats, downloadReqs, notPPT>>

\* handlePPTGenerate after its await: result.success falsy, or the call threw
handlePPTGenerateFails(i, text) ==
    /\ genReqs' = RemoveAt(genReqs, i)
    /\ error' = Or(text, "Generation failed")
    /\ generating' = FALSE
    /\ UNCHANGED <<sessionId, slides, metadata, recommendations, formVars, panelVars,
                   uploadReqs, recReqs, nextSid, stats, artifactVars, notPPT>>

\* App renders SlidePreview while pptSlides is not empty
SlidePreviewMounted == sessionId # NoSession /\ Len(slides) > 0

\* slides[currentSlideIndex] is a slide: the viewer's render reads its content
\* and throws when it is undefined, which takes the navigation off the screen
SlideRendered == SlidePreviewMounted /\ currentSlideIndex < Len(slides)

Max(a, b) == IF a >= b THEN a ELSE b

Min(a, b) == IF a <= b THEN a ELSE b

viewerFrame == <<dashVars, formVars, selectedSlides, selOrigin, template, theme, netVars,
                 nextSid, stats, artifactVars, notPPT>>

\* the Previous button, disabled on the first slide
PreviousSlide ==
    /\ SlideRendered
    /\ currentSlideIndex # 0
    /\ currentSlideIndex' = Max(0, currentSlideIndex - 1)
    /\ UNCHANGED viewerFrame

\* the Next button, disabled on the last slide
NextSlide ==
    /\ SlideRendered
    /\ currentSlideIndex # Len(slides) - 1
    /\ currentSlideIndex' = Min(Len(slides) - 1, currentSlideIndex + 1)
    /\ UNCHANGED viewerFrame

\* a click on the dot of slide index (one dot per slide)
GoToSlide(index) ==
    /\ SlideRendered
    /\ index \in 0..(Len(slides) - 1)
    /\ currentSlideIndex' = index
    /\ UNCHANGED viewerFrame

\* the application once the PPT tab has been opened
ViewerInit == Constructed("ppt")

ViewerNext ==
    \/ \E f \in Files : handleBalanceSheetChange(f)
    \/ \E f \in Files : handleCompanyProfileChange(f)
    \/ PPTHandleUpload
    \/ \E i \in 1..Len(uploadReqs) : handlePPTUploadSuccess(i)
    \/ \E t \in SlideTypes : handleSlideToggle(t)
    \/ \E value \in Templates : setTemplate(value)
    \/ handlePPTGenerate
    \/ \E i \in 1..Len(genReqs) : \E deck \in Decks(genReqs[i]) :
           handlePPTGenerateSucceeds(i, deck)
    \/ \E i \in 1..Len(genReqs), text \in ErrorTexts : handlePPTGenerateFails(i, text)
    \/ PreviousSlide
    \/ NextSlide
    \/ \E index \in 0..(Cardinality(SlideTypes) - 1) : GoToSlide(index)

\* the PPT tab of the tabbed application with a backend that accepts every
\* upload
SpecViewer == ViewerInit /\ [][ViewerNext]_vars

(***************************************************************************)

(* Claims about the presentation flow                                      *)
(***************************************************************************)

\* C1: the completion of a generate request that was issued for a session other
\* than the current one (reset() fired while it was in flight, with or without a
\* new upload since) changes neither the slide list, the metadata nor the error.
C1_StaleGenerateDiscarded ==
    [][\A i \in 1..Len(genReqs) :
          (genReqs[i].session_id # sessionId /\ genReqs' = RemoveAt(genReqs, i))
              => (slides' = slides /\ metadata' = metadata /\ error' = error)]_vars

\* C2: every slide held in state, and the metadata held in state, were returned
\* for a generate request of the current session; without a session, or with a
\* session no generate has succeeded for, there is no slide and no metadata.
C2_DeckBelongsToSession ==
    /\ \A k \in 1..Len(slides) : slides[k].content = sessionId
    /\ metadata.present => metadata.sid = sessionId

\* C6: no two generate requests of one session are outstanding at the same time.
C6_OneGeneratePerSession ==
    \A i, j \in 1..Len(genReqs) :
        i # j => genReqs[i].session_id # genReqs[j].session_id

\* C6 witness: a generate request of the current session is outstanding while the
\* selection is non-empty, so only the busy flag keeps the button disabled.
C6_Witness ==
    /\ Len(genReqs) = 1
    /\ genReqs[1].session_id = sessionId
    /\ Len(selectedSlides) > 0
    /\ GenerateDisabled

\* C8: when a generate request fails while a deck is held, the slide list and
\* the metadata stay as they were and the error message is set; a step that puts
\* a new non-empty slide list in place is the success of a generate request.
C8_FailedGenerateKeepsDeck ==
    [][/\ \A i \in 1..Len(genReqs), text \in ErrorTexts :
             (Len(slides) > 0 /\ GenerateFails(i, text))
                 => /\ slides' = slides
                    /\ metadata' = metadata
                    /\ error' = Or(text, "Generation failed")
       /\ (slides' # slides /\ Len(slides') > 0)
             => \E i \in 1..Len(genReqs) : \E deck \in Decks(genReqs[i]) :
                    GenerateSucceeds(i, deck)]_vars

\* C8 witness: a deck of the current session is still held together with the
\* error of a failed regeneration.
C8_Witness ==
    /\ sessionId # NoSession
    /\ Len(slides) > 0
    /\ \A k \in 1..Len(slides) : slides[k].content = sessionId
    /\ metadata.present
    /\ error = "timeout"

\* C9: the slide selection of a session stems from the default list or from the
\* recommendations fetched for that session (and the user's toggles), never
\* from recommendations fetched for another session.
C9_SelectionFromOwnSession ==
    sessionId # NoSession => selOrigin \in {NoSession, sessionId}

(***************************************************************************)
(* Claims about the upload forms                                           *)
(***************************************************************************)

\* C3: a call of a form's submit handler while a required slot is empty ends
\* with the missing-document message, adds no upload request and leaves the
\* session id, the upload status and the busy flags as they were.
C3_EmptySlotRejected ==
    [][/\ (PPTSubmit /\ (balanceSheet = NoFile \/ companyProfile = NoFile))
             => /\ uploadError' \in {"Please select a balance sheet file",
                                     "Please select a company profile file"}
                /\ uploadReqs' = uploadReqs
                /\ sessionId' = sessionId
                /\ uploading' = uploading
       /\ (RAGSubmit /\ balanceSheet = NoFile)
             => /\ alertText' = "Please upload a balance sheet file"
                /\ uploadReqs' = uploadReqs
                /\ sessionId' = sessionId
                /\ uploadStatus' = uploadStatus
                /\ isProcessing' = isProcessing]_vars

\* C3 witness: the presentation form shows the missing-balance-sheet message
\* with the slot empty and no request sent.
C3_Witness ==
    /\ activeView = "ppt"
    /\ balanceSheet = NoFile
    /\ uploadError = "Please select a balance sheet file"
    /\ uploadReqs = <<>>

\* C5: at most one upload request of a pipeline is outstanding at any time.
C5_OneUploadInFlight == Len(uploadReqs) <= 1

(***************************************************************************)
(* Claims about the chat flow                                              *)
(***************************************************************************)

\* C4: in the history of a mounted chat the turns alternate, user turns at the
\* even positions and assistant turns at the odd ones, and the history ends
\* with a user turn exactly while that chat's request is outstanding: every
\* accepted send has added one user turn, and its resolution, whatever the
\* outcome, one assistant turn.
C4_UserThenAssistant ==
    ChatInterfaceMounted =>
        /\ \A k \in 1..Len(messages) :
               messages[k].role = IF k % 2 = 0 THEN "user" ELSE "assistant"
        /\ (Len(messages) % 2 = 0) <=> (\E i \in 1..Len(chatReqs) : chatReqs[i].inst = chatInst)

\* C4 witness: a send has resolved with a failure and its error turn follows
\* the user turn.
C4_Witness ==
    /\ ChatInterfaceMounted
    /\ Len(messages) = 3
    /\ messages[2].role = "user"
    /\ messages[3].content[1] = "Sorry, I encountered an error: "
    /\ ~isLoading

C10_HistoryOfOwnSession ==
    /\ [](IF ChatInterfaceMounted
          THEN /\ messages[1] = Greeting
               /\ \A k \in 2..Len(messages) : messages[k].sid = sessionId
          ELSE messages = <<>>)
    /\ [][(sessionId' # sessionId /\ sessionId' # NoSession)
              => messages' = InitialMessages]_vars

\* C10 witness: in the second session, with a chat request of the first session
\* still outstanding, the history holds the greeting and the new session's turns.
C10_Witness ==
    /\ sessionId = 2
    /\ \E i \in 1..Len(chatReqs) : chatReqs[i].session_id = 1
    /\ Len(messages) >= 2

(***************************************************************************)
(* Claims about the slide selection                                        *)
(***************************************************************************)

\* C11: when the recommendation list that is already held arrives a second time
\* (the same non-empty list) while the panel is on screen, the selection, with
\* whatever the user toggled since the first arrival, stays as it is.
C11_SameListKeepsEdits ==
    [][\A i \in 1..Len(recReqs), list \in RecommendedLists :
          (/\ RecommendationsArrive(i, list)
           /\ ConfigurationPanelMounted
           /\ Len(list) > 0
           /\ recommendations.present
           /\ recommendations.slides = list)
              => selectedSlides' = selectedSlides]_vars

\* C12: once the user has toggled the selection of a session away from the
\* default list, the recommendation response of that session arriving
\* afterwards leaves the selection as the user set it.
C12_TogglesBeatLateRecommendations ==
    [][\A i \in 1..Len(recReqs), list \in RecommendedLists :
          (/\ RecommendationsArrive(i, list)
           /\ ConfigurationPanelMounted
           /\ recReqs[i] = sessionId
           /\ selOrigin = NoSession
           /\ selectedSlides # DefaultSlides)
              => selectedSlides' = selectedSlides]_vars

\* C13: ticking a selected slide type off removes it, and no generate request
\* ever carries an empty slide list: with an empty selection the generate
\* button is disabled.
C13_NoEmptyGenerate ==
    /\ [](/\ \A i \in 1..Len(genReqs) : Len(genReqs[i].slides) > 0
          /\ Len(selectedSlides) = 0 => GenerateDisabled)
    /\ [][\A t \in SlideTypes :
             (handleSlideToggle(t) /\ Includes(selectedSlides, t))
                 => ~Includes(selectedSlides', t)]_vars

\* C13 witness: every slide type of a session's selection has been ticked off
\* while nothing is being generated, so only the empty selection disables the
\* button.
C13_Witness ==
    /\ ConfigurationPanelMounted
    /\ selectedSlides = <<>>
    /\ ~generating
    /\ genReqs = <<>>

\* C14: a generate request is only ever sent while a session is held, and it
\* carries the id of the session held at that moment.
C14_GenerateNeedsSession ==
    /\ [](\A i \in 1..Len(genReqs) : genReqs[i].session_id # NoSession)
    /\ [][Len(genReqs') > Len(genReqs)
             => (sessionId # NoSession
                   /\ genReqs'[Len(genReqs')].session_id = sessionId)]_vars

\* C14 witness: a session has been given up and none is held, while the
\* selection is non-empty and nothing is being generated: generation is
\* unavailable only because there is no session.
C14_Witness ==
    /\ sessionId = NoSession
    /\ nextSid > 1
    /\ Len(selectedSlides) > 0
    /\ ~generating

\* C15: a chat request is only ever issued, and a user turn only ever appended,
\* while a session is held; the request carries that session's id.
C15_SendNeedsSession ==
    /\ [](\A i \in 1..Len(chatReqs) : chatReqs[i].session_id # NoSession)
    /\ [][(Len(chatReqs') > Len(chatReqs) \/ Len(messages') > Len(messages))
             => (sessionId' # NoSession
                   /\ (Len(chatReqs') > Len(chatReqs)
                         => (sessionId # NoSession
                               /\ chatReqs'[Len(chatReqs')].session_id = sessionId)))]_vars

\* C15 witness: a session with its chat has been given up and none is held:
\* there is no chat to send from.
C15_Witness ==
    /\ sessionId = NoSession
    /\ chatInst > 0
    /\ messages = <<>>
    /\ ~isLoading

\* C16: every download request is for a session a generate request has
\* succeeded for, and is sent while that session is the one held.
C16_DownloadOnlyGenerated ==
    /\ [](\A i \in 1..Len(downloadReqs) : downloadReqs[i] \in generated)
    /\ [][Len(downloadReqs') > Len(downloadReqs)
             => (sessionId # NoSession
                   /\ downloadReqs'[Len(downloadReqs')] = sessionId)]_vars

(***************************************************************************)
(* Claims about the upload pipeline                                        *)
(***************************************************************************)

\* C17: from the moment a failed upload request has resolved until the next
\* submit, the progress label is the terminal one handleUpload set.
C17_TerminalStageStays ==
    uploadStatus = "error" => processingStatus \in TerminalLabels

(***************************************************************************)
(* Claims about the outcome of an upload                                   *)
(***************************************************************************)

\* C18: a submit with the required document present (the optional one present or
\* absent) issues one request carrying the documents and moves the status to
\* uploading; a backend success moves the status from uploading to ready and the
\* stored session id is the id the backend returned.
C18_UploadReachesReady ==
    [][/\ (activeView = "rag" /\ RAGHandleUpload /\ balanceSheet # NoFile)
            => (/\ uploadStatus' = "uploading"
                /\ uploadReqs' = Append(uploadReqs, uploadReqs'[Len(uploadReqs')])
                /\ uploadReqs'[Len(uploadReqs')].balance_sheet = balanceSheet
                /\ uploadReqs'[Len(uploadReqs')].company_profile.defined
                       = (companyProfile # NoFile))
       /\ \A i \in 1..Len(uploadReqs) :
            (activeView = "rag" /\ RAGUploadSucceeds(i))
               => (/\ uploadStatus = "uploading"
                   /\ uploadStatus' = "success"
                   /\ sessionId' = nextSid
                   /\ sessionId' # NoSession)
       /\ (activeView = "ppt" /\ PPTHandleUpload
              /\ balanceSheet # NoFile /\ companyProfile # NoFile)
            => (/\ uploading'
                /\ uploadReqs' = Append(uploadReqs, [balance_sheet |-> balanceSheet,
                                                     company_profile |-> companyProfile]))
       /\ \A i \in 1..Len(uploadReqs) :
            (activeView = "ppt" /\ PPTUploadSucceeds(i))
               => (/\ uploading
                   /\ sessionId' = nextSid
                   /\ sessionId' # NoSession
                   /\ ConfigurationPanelMounted')]_vars

\* an upload of the chat flow has succeeded and its session is stored
C18_Witness == activeView = "rag" /\ uploadStatus = "success" /\ sessionId # NoSession

C20_ErrorTurnCarriesText ==
    [][\A i \in 1..Len(chatReqs), text \in ErrorTexts :
          ((ChatRejected(i, text) \/ ChatThrows(i, text)) /\ ChatInstanceMounted(chatReqs[i]))
             => (/\ Len(messages') = Len(messages) + 1
                 /\ messages' = Append(messages, messages'[Len(messages')])
                 /\ messages'[Len(messages')].role = "assistant"
                 /\ messages'[Len(messages')].metadata = EmptyMetadata
                 /\ text # NoText
                      => \E k \in 1..Len(messages'[Len(messages')].content) :
                            messages'[Len(messages')].content[k] = text)]_vars

\* the history ends with the assistant turn of a request that failed with "timeout"
C20_Witness ==
    /\ ChatInterfaceMounted
    /\ Len(messages) >= 3
    /\ messages[Len(messages)].role = "assistant"
    /\ messages[Len(messages)].content = <<"Sorry, I encountered an error: ", "timeout">>
    /\ messages[Len(messages)].metadata = EmptyMetadata
    /\ messages[Len(messages) - 1].role = "user"

(***************************************************************************)
(* Claims about the turns and requests of the chat                         *)
(***************************************************************************)

\* C21: on a successful chat answer the appended assistant turn has the answer as
\* its content and metadata taken from the answer's citations, grounding and
\* pipeline fields; for a field the answer lacks the metadata holds the default
\* (citations empty, grounded false), never an undefined value.
C21_AnswerTurnDefaults ==
    [][\A i \in 1..Len(chatReqs), fields \in AnswerFields :
          (ChatAnswers(i, fields) /\ ChatInstanceMounted(chatReqs[i]))
             => (/\ messages' = Append(messages, messages'[Len(messages')])
                 /\ messages'[Len(messages')].role = "assistant"
                 /\ messages'[Len(messages')].content = <<"answer to ", chatReqs[i].question>>
                 /\ messages'[Len(messages')].metadata.citations
                      = IF fields.citations.defined THEN fields.citations ELSE Defined(<<>>)
                 /\ LET grounded == messages'[Len(messages')].metadata.grounded
                    IN  /\ grounded.defined
                        /\ grounded.value = IF fields.grounding_check.defined
                                            THEN fields.grounding_check.value
                                            ELSE FALSE)]_vars

\* C22: a chat send appends the user turn and issues exactly one request; the
\* request's question is the text sent and its chat_history is the whole ordered
\* sequence of the turns that preceded the send, the greeting included, each
\* reduced to role and content.
C22_RequestCarriesHistory ==
    [][\A text \in Inputs :
          handleSend(text)
             => (/\ messages' = Append(messages, messages'[Len(messages')])
                 /\ messages'[Len(messages')].role = "user"
                 /\ messages'[Len(messages')].content = <<text>>
                 /\ chatReqs' = Append(chatReqs, chatReqs'[Len(chatReqs')])
                 /\ chatReqs'[Len(chatReqs')].question = text
                 /\ Len(chatReqs'[Len(chatReqs')].chat_history) = Len(messages)
                 /\ \A k \in 1..Len(messages) :
                      /\ DOMAIN chatReqs'[Len(chatReqs')].chat_history[k] = {"role", "content"}
                      /\ chatReqs'[Len(chatReqs')].chat_history[k].role = messages[k].role
                      /\ chatReqs'[Len(chatReqs')].chat_history[k].content = messages[k].content
                 /\ chatReqs'[Len(chatReqs')].chat_history[1].content = Greeting.content)]_vars

\* the request of a second send is in flight: its history is the greeting and
\* the first exchange
C22_Witness ==
    \E i \in 1..Len(chatReqs) :
        /\ chatReqs[i].inst = chatInst
        /\ chatReqs[i].session_id = sessionId
        /\ Len(chatReqs[i].chat_history) = 3
        /\ chatReqs[i].chat_history[1].content = Greeting.content
        /\ chatReqs[i].chat_history[2].role = "user"
        /\ Len(messages) = 4

(***************************************************************************)
(* Claims about the recommendations and the slide selection                *)
(***************************************************************************)

\* C23: a failed recommendation fetch (thrown, or answered with success false)
\* leaves the slide selection, the session and the error shown to the user
\* exactly as they were.
C23_FailedFetchChangesNothing ==
    [][\A i \in 1..Len(recReqs) :
          RecommendationsFail(i)
             => (/\ selectedSlides' = selectedSlides
                 /\ sessionId' = sessionId
                 /\ error' = error
                 /\ uploadError' = uploadError
                 /\ recommendations' = recommendations)]_vars

\* the fetch of the current session has failed and the selection still holds
\* the user's edit
C23_Witness ==
    /\ sessionId = 1
    /\ recReqs = <<>>
    /\ ~recommendations.present
    /\ selectedSlides = <<"title">>
    /\ error = NoText

\* C24: the slide selection starts at the fixed baseline list; a non-empty
\* recommendation set that reaches the panel replaces the selection wholesale
\* (the selection becomes exactly the recommended list), while an absent or
\* empty recommendation set leaves the selection as it is.
C24_RecommendationsReplaceWholesale ==
    [][/\ \A i \in 1..Len(uploadReqs) :
            (PPTUploadSucceeds(i) /\ (~recommendations.present \/ recommendations.slides = <<>>))
               => selectedSlides' = DefaultSlides
       /\ \A i \in 1..Len(recReqs), list \in RecommendedLists :
            (RecommendationsArrive(i, list) /\ ConfigurationPanelMounted)
               => selectedSlides' = IF list # <<>> THEN list ELSE selectedSlides]_vars

\* the recommendations of the current session have replaced the two-entry
\* baseline by the one recommended slide
C24_Witness ==
    /\ sessionId # NoSession
    /\ recommendations.present
    /\ recommendations.sid = sessionId
    /\ recommendations.slides = <<"executive">>
    /\ selectedSlides = <<"executive">>
    /\ selOrigin = sessionId

(***************************************************************************)
(* Claims about the documents an upload carries                            *)
(***************************************************************************)

\* C25: a document whose extension is not in the allow-list is turned away
\* when it is picked, in both slots of both flows, so no upload request carries
\* a document with another extension.
C25_OnlyAllowedExtensions ==
    \A i \in 1..Len(uploadReqs) :
        /\ FileExt(uploadReqs[i].balance_sheet) \in AcceptedExts
        /\ IF activeView = "rag"
           THEN uploadReqs[i].company_profile.defined
                   => FileExt(uploadReqs[i].company_profile.value) \in AcceptedExts
           ELSE FileExt(uploadReqs[i].company_profile) \in AcceptedExts

(***************************************************************************)
(* Claims about the dashboard as a whole                                   *)
(***************************************************************************)

\* C26: an answer whose success key is missing (or false), with or without an
\* error text, is handled as a failure by every flow: an upload answer stores
\* no session, a generate answer replaces neither the slide list nor the
\* metadata, a chat answer yields the error turn of the assistant, and in each
\* case an error is shown.
C26_NoSuccessKeyIsFailure ==
    [][/\ \A i \in 1..Len(uploadReqs), text \in ErrorTexts :
            (activeView = "rag" /\ RAGUploadRejected(i, text))
               => (/\ sessionId' = NoSession
                   /\ uploadStatus' = "error"
                   /\ error' # NoText)
       /\ \A i \in 1..Len(uploadReqs), text \in ErrorTexts, errs \in ErrorLists :
            (activeView = "ppt" /\ PPTUploadRejected(i, text, errs))
               => (/\ sessionId' = NoSession
                   /\ uploadError' # NoText)
       /\ \A i \in 1..Len(genReqs), text \in ErrorTexts :
            (activeView = "ppt" /\ GenerateFails(i, text))
               => (/\ slides' = slides
                   /\ metadata' = metadata
                   /\ sessionId' = sessionId
                   /\ error' # NoText)
       /\ \A i \in 1..Len(chatReqs), text \in ErrorTexts :
            (activeView = "rag" /\ ChatRejected(i, text) /\ ChatInstanceMounted(chatReqs[i]))
               => (/\ messages' = Append(messages, messages'[Len(messages')])
                   /\ messages'[Len(messages')].role = "assistant"
                   /\ messages'[Len(messages')].content[1] = "Sorry, I encountered an error: "
                   /\ messages'[Len(messages')].content[2] # NoText
                   /\ messages'[Len(messages')].metadata = EmptyMetadata)]_vars

\* an upload answer of the chat flow without success and without an error text
\* has been handled: no session, the generic message
C26_Witness ==
    /\ activeView = "rag"
    /\ sessionId = NoSession
    /\ uploadStatus = "error"
    /\ error = "Upload failed"
    /\ uploadReqs = <<>>

\* C27: the session id goes from absent to present only by a successful upload,
\* and from present to absent only by the user's reset; no other action of the
\* user, a change of view included, ends a session.
C27_SessionEndsOnlyByReset ==
    [][/\ (sessionId = NoSession /\ sessionId' # NoSession)
            => \E i \in 1..Len(uploadReqs) : RAGUploadSucceeds(i) \/ PPTUploadSucceeds(i)
       /\ (sessionId # NoSession /\ sessionId' = NoSession)
            => (RAGHandleReset \/ handleReset)]_vars

\* C28: while the session id stays the same the chat history only grows at its
\* end: the history of an earlier moment of the session is a prefix of the
\* history of every later moment, whatever sends, answers and changes of tab
\* come in between.
C28_HistoryAppendOnly ==
    [][(sessionId # NoSession /\ sessionId' = sessionId)
          => (/\ Len(messages) <= Len(messages')
              /\ SubSeq(messages', 1, Len(messages)) = messages)]_vars

\* C29: a busy flag is up only while its request is unresolved or, for the
\* upload form of the chat flow, until the timer set at the resolution has run,
\* and that timer does run: after a resolved upload, chat or generate request,
\* by success or by either kind of failure, the flag comes down, the control is
\* available again with the inputs still in place, and the resolution of a
\* generate or chat request or of a failed upload leaves the session id as it was.
C29_BusyFlagsClear ==
    /\ [](generating => genReqs # <<>>)
    /\ [](uploading => uploadReqs # <<>>)
    /\ [](isLoading => \E i \in 1..Len(chatReqs) : chatReqs[i].inst = chatInst)
    /\ [](isProcessing => (uploadReqs # <<>> \/ hideTimer))
    /\ (hideTimer ~> (~isProcessing /\ ~RAGUploadDisabled))
    /\ [][(\/ Len(genReqs') < Len(genReqs)
           \/ Len(chatReqs') < Len(chatReqs)
           \/ (Len(uploadReqs') < Len(uploadReqs) /\ sessionId' = NoSession))
             => sessionId' = sessionId]_vars

\* a failed upload of the chat flow has been followed by its timer: the form is
\* idle again, with the document still in its slot
C29_Witness ==
    /\ activeView = "rag"
    /\ uploadStatus = "error"
    /\ ~isProcessing
    /\ ~hideTimer
    /\ uploadReqs = <<>>
    /\ ~RAGUploadDisabled

(***************************************************************************)
(* Claims about the generated deck                                         *)
(***************************************************************************)

C31_OptionalSlotOmitted ==
    /\ [](activeView = "rag" =>
            \A i \in 1..Len(uploadReqs) :
                /\ uploadReqs[i].balance_sheet # NoFile
                /\ uploadReqs[i].company_profile.defined
                      => uploadReqs[i].company_profile.value # NoFile)
    /\ [][RAGSubmit =>
            IF balanceSheet # NoFile
            THEN /\ Len(uploadReqs') = Len(uploadReqs) + 1
                 /\ SubSeq(uploadReqs', 1, Len(uploadReqs)) = uploadReqs
                 /\ uploadReqs'[Len(uploadReqs')].balance_sheet = balanceSheet
                 /\ uploadReqs'[Len(uploadReqs')].company_profile
                       = IF companyProfile = NoFile THEN Undefined
                         ELSE Defined(companyProfile)
            ELSE uploadReqs' = uploadReqs]_vars

\* two requests of the chat flow are in flight, one without and one with the
\* optional document
C31_Witness ==
    /\ activeView = "rag"
    /\ \E i \in 1..Len(uploadReqs) : ~uploadReqs[i].company_profile.defined
    /\ \E i \in 1..Len(uploadReqs) :
          /\ uploadReqs[i].company_profile.defined
          /\ uploadReqs[i].company_profile.value # NoFile

\* C32: the generate request carries the session id the dashboard holds and
\* exactly the slide selection, the template and the theme the panel shows at
\* the moment Generate is clicked; the requests already in flight keep what
\* they were sent with, and no default takes the place of the user's choice.
C32_RequestCarriesConfiguration ==
    [][handleGenerate =>
          /\ Len(genReqs') = Len(genReqs) + 1
          /\ SubSeq(genReqs', 1, Len(genReqs)) = genReqs
          /\ genReqs'[Len(genReqs')].session_id = sessionId
          /\ genReqs'[Len(genReqs')].slides = selectedSlides
          /\ genReqs'[Len(genReqs')].template = template
          /\ genReqs'[Len(genReqs')].theme = theme]_vars

\* a request is in flight for the second session with a selection, a template
\* and a theme that are not the defaults
C32_Witness ==
    /\ sessionId = 2
    /\ \E i \in 1..Len(genReqs) :
          /\ genReqs[i].session_id = 2
          /\ genReqs[i].slides = <<"executive">>
          /\ genReqs[i].template = "modern"
          /\ genReqs[i].theme = "green"

(***************************************************************************)
(* Claims about the stage the upload form ends in                          *)
(***************************************************************************)

\* C33: the chat flow's upload form shows the success stage ("Ready for
\* chatbot!", processingComplete true) only after an upload that produced a
\* session; an answer with success false and a failed request both leave the
\* failure stage on screen and processingComplete false.
C33_SuccessStageOnlyOnReady ==
    /\ []((RAGFileUploadMounted /\ processingComplete) => uploadStatus = "success")
    /\ [][\A i \in 1..Len(uploadReqs), text \in ErrorTexts :
            (RAGUploadRejected(i, text) \/ RAGUploadThrows(i, text))
               => (/\ processingStatus' = "Processing failed"
                   /\ processingComplete' = FALSE)]_vars

(***************************************************************************)
(* Claims about the slide viewer                                           *)
(***************************************************************************)

\* C34: whenever the slide viewer is on screen its current slide index is at
\* least 0 and below the number of slides, after any sequence of Previous,
\* Next, dot clicks and regenerations, a regeneration that answers with fewer
\* slides than the deck on screen included.
C34_IndexWithinDeck ==
    SlidePreviewMounted => (0 <= currentSlideIndex /\ currentSlideIndex < Len(slides))

(***************************************************************************)
(* Claims about the session and the counters                               *)
(***************************************************************************)

\* C35: in every reachable state of an upload flow a session id is stored
\* exactly when the upload status is "success", whatever the order of file
\* selections, upload completions and resets.
C35_SessionIffSuccess ==
    (sessionId # NoSession) <=> (uploadStatus = "success")

\* C36: Dashboard's counters never decrease and change in success steps only:
\* a successful upload adds exactly one to documentsProcessed, a successful
\* generation exactly one to pptsGenerated, a successful chat answer exactly
\* one to ragQueries, each leaving the other two alone; a failed upload,
\* generation or chat request changes no counter.
C36_CountersCountSuccesses ==
    [][/\ stats'.documentsProcessed >= stats.documentsProcessed
       /\ stats'.pptsGenerated >= stats.pptsGenerated
       /\ stats'.ragQueries >= stats.ragQueries
       /\ \A i \in 1..Len(uploadReqs) :
             (PPTUploadSucceeds(i) \/ RAGUploadSucceeds(i))
                => stats' = [stats EXCEPT !.documentsProcessed = @ + 1]
       /\ \A i \in 1..Len(genReqs) : \A deck \in Decks(genReqs[i]) :
             GenerateSucceeds(i, deck) => stats' = [stats EXCEPT !.pptsGenerated = @ + 1]
       /\ \A i \in 1..Len(chatReqs), fields \in AnswerFields :
             ChatAnswers(i, fields) => stats' = [stats EXCEPT !.ragQueries = @ + 1]
       /\ \A text \in ErrorTexts :
             (\/ \E i \in 1..Len(uploadReqs) :
                    PPTUploadFails(i, text) \/ RAGUploadThrows(i, text)
              \/ \E i \in 1..Len(genReqs) : GenerateFails(i, text)
              \/ \E i \in 1..Len(chatReqs) : ChatRejected(i, text))
                => stats' = stats
       /\ (stats' # stats)
             => (\/ \E i \in 1..Len(uploadReqs) : PPTUploadSucceeds(i) \/ RAGUploadSucceeds(i)
                 \/ \E i \in 1..Len(genReqs) : \E deck \in Decks(genReqs[i]) :
                       GenerateSucceeds(i, deck)
                 \/ \E i \in 1..Len(chatReqs), fields \in AnswerFields :
                       ChatAnswers(i, fields))]_vars

\* two documents, a presentation and a chat answer have been counted, and the
\* last chat request of the session on screen has failed
C36_Witness ==
    /\ stats.documentsProcessed = 2
    /\ stats.pptsGenerated = 1
    /\ stats.ragQueries = 1
    /\ activeView = "rag"
    /\ Len(messages) = MaxMessages
    /\ messages[Len(messages)].content[1] = "Sorry, I encountered an error: "

(***************************************************************************)
(* Claims about the slide selection                                        *)
(***************************************************************************)

\* C37: a click on the checkbox of a slide type flips the membership of that
\* type in the selection and of no other type; a selection without repeated
\* types stays without them; and two clicks on the same checkbox give back
\* the selection the panel started from, as a set.
C37_ToggleFlipsOneMembership ==
    /\ [](\A t \in AvailableSlides :
            LET twice == Toggled(Toggled(selectedSlides, t), t)
            IN  {twice[k] : k \in 1..Len(twice)}
                   = {selectedSlides[k] : k \in 1..Len(selectedSlides)})
    /\ [][\A t \in AvailableSlides :
            handleSlideToggle(t) =>
               /\ Includes(selectedSlides', t) = ~Includes(selectedSlides, t)
               /\ \A u \in AvailableSlides \ {t} :
                     Includes(selectedSlides', u) = Includes(selectedSlides, u)
               /\ (\A i, j \in 1..Len(selectedSlides) :
                       (selectedSlides[i] = selectedSlides[j]) => (i = j))
                     => (\A i, j \in 1..Len(selectedSlides') :
                            (selectedSlides'[i] = selectedSlides'[j]) => (i = j))]_vars

\* a click has added a type to a recommended list of MaxLen entries: the
\* selection is longer than any list the panel can start from
C37_Witness ==
    /\ Len(recommendations.slides) = MaxLen
    /\ Len(selectedSlides) = MaxLen + 1
    /\ selectedSlides # recommendations.slides

====
